---- MODULE Spec2Model ----
(***************************************************************************)
(* Actify backend (src/backend/server.py): the daily-challenge lifecycle.  *)
(* The document store is the shared state; every request handler is a     *)
(* process whose steps are the pieces of code between two awaited store    *)
(* round trips, so handlers of concurrent requests interleave at exactly   *)
(* the points where the event loop can switch.                             *)
(***************************************************************************)
EXTENDS Integers, Sequences, FiniteSets, TLC

VARIABLES
    groups,                 \* db.groups: sequence of group documents, id = index
    activities,             \* db.activities: sequence of documents, id = index
    submissions,            \* db.submissions: sequence of documents, id = index
    users,                  \* db.users: per user the two lifetime counters
    notifications,          \* db.notifications: sequence of documents
    leaderboard_history,    \* db.leaderboard_history: sequence of snapshots
    now,                    \* datetime.utcnow(), in ticks
    pc,                     \* per request slot: the await point it stands at
    loc,                    \* per request slot: the handler's local variables
    nreq,                   \* number of requests started so far
    pre,                    \* observer: the store and time when the running request began
    last                    \* observer: the request that finished most recently

store_vars == <<groups, activities, submissions, users, notifications, leaderboard_history>>
vars == <<groups, activities, submissions, users, notifications, leaderboard_history,
          now, pc, loc, nreq, pre, last>>

(***************************************************************************)
(* Bounds of the model.                                                    *)
(***************************************************************************)
MaxActs == 2
MaxSubs == 2
MaxOps == 3
MaxTime == 4
TicksPerDay == 2
MaxCount == 51
MaxGroups == 2

Users == {"A", "B", "C"}
Emojis == {"fire", "clap"}
Procs == {"p1", "p2"}

NoDate == 0
NoId == 0

(***************************************************************************)
(* Sequence helpers standing for Python list / MongoDB array operations.   *)
(***************************************************************************)
InSeq(x, s) == \E i \in 1..Len(s) : s[i] = x

SetOf(s) == {s[i] : i \in 1..Len(s)}

\* MongoDB $pull: removes every occurrence of x.
Pull(s, x) == SelectSeq(s, LAMBDA y : y # x)

\* MongoDB $push: appends, whether or not x is already there.
Push(s, x) == Append(s, x)

\* Python list.remove: removes the first occurrence of x.
RemoveFirst(s, x) ==
    LET i == CHOOSE k \in 1..Len(s) : s[k] = x /\ \A j \in 1..(k - 1) : s[j] # x
    IN  SubSeq(s, 1, i - 1) \o SubSeq(s, i + 1, Len(s))

Store ==
    [groups |-> groups, activities |-> activities, submissions |-> submissions,
     users |-> users, notifications |-> notifications,
     leaderboard_history |-> leaderboard_history]

(***************************************************************************)
(* Documents.                                                              *)
(***************************************************************************)
Group(members, admins) == [members |-> members, admins |-> admins, max_members |-> 15]

Activity(group_id, created_by) ==
    [group_id |-> group_id, created_by |-> created_by,
     selected_for_date |-> NoDate, is_completed |-> FALSE]

EmptyReactions == [e \in {} |-> <<>>]

Submission(activity_id, user_id) ==
    [activity_id |-> activity_id, user_id |-> user_id,
     votes |-> <<>>, reactions |-> EmptyReactions]

User == [total_points |-> 0, completed_challenges |-> 0]

Notification(user_id, type) == [user_id |-> user_id, type |-> type]

NoGroup == [members |-> <<>>, admins |-> <<>>, max_members |-> 0]
NoActivity == [group_id |-> NoId, created_by |-> "", selected_for_date |-> NoDate,
               is_completed |-> FALSE]
NoSubmission == [activity_id |-> NoId, user_id |-> "", votes |-> <<>>,
                 reactions |-> EmptyReactions]

(***************************************************************************)
(* The calendar-day window of select_daily_activity.                       *)
(***************************************************************************)
\* datetime.utcnow().date()
DateOf(t) == t \div TicksPerDay

\* datetime(today.year, today.month, today.day)
Midnight(d) == d * TicksPerDay

\* Variant: the window's lower bound taken as exclusive.
InWindowAfterMidnight(sel, d) ==
    sel # NoDate /\ sel > Midnight(d) /\ sel < Midnight(d) + TicksPerDay

InWindow(sel, d) == sel # NoDate /\ sel >= Midnight(d) /\ sel < Midnight(d) + TicksPerDay

\* db.activities.find_one({group_id, selected_for_date in today's window}):
\* the first matching document in insertion order, NoId when there is none.
TodayActivity(acts, g, d) ==
    LET hits == {i \in 1..Len(acts) : acts[i].group_id = g /\ InWindow(acts[i].selected_for_date, d)}
    IN  IF hits = {} THEN NoId ELSE CHOOSE i \in hits : \A j \in hits : i <= j

\* Variant: every activity of the group counts as pending.
PendingActivitiesSelectedToo(acts, g) == {i \in 1..Len(acts) : acts[i].group_id = g}

\* db.activities.find({group_id, selected_for_date: None})
PendingActivities(acts, g) ==
    {i \in 1..Len(acts) : acts[i].group_id = g /\ acts[i].selected_for_date = NoDate}

(***************************************************************************)
(* Request slots.                                                          *)
(***************************************************************************)
IdleLoc ==
    [op |-> "none", current_user |-> "", group_id |-> NoId, activity_id |-> NoId,
     submission_id |-> NoId, emoji |-> "", user_id |-> "",
     group |-> NoGroup, activity |-> NoActivity, submission |-> NoSubmission,
     today |-> 0, selected_activity |-> NoId, vote_added |-> FALSE,
     leaderboard |-> <<>>,
     result |-> "none", ret |-> NoId]

Begin(p, op, first, u, g, a, s, e) ==
    /\ pc[p] = "idle"
    /\ nreq < MaxOps
    /\ nreq' = nreq + 1
    /\ pc' = [pc EXCEPT ![p] = first]
    /\ loc' = [loc EXCEPT ![p] = [IdleLoc EXCEPT !.op = op, !.current_user = u,
                                   !.group_id = g, !.activity_id = a,
                                   !.submission_id = s, !.emoji = e]]
    /\ UNCHANGED <<store_vars, now>>

\* A request of current user u about user_id in group g.
BeginAbout(p, op, first, u, g, user_id) ==
    /\ pc[p] = "idle"
    /\ nreq < MaxOps
    /\ nreq' = nreq + 1
    /\ pc' = [pc EXCEPT ![p] = first]
    /\ loc' = [loc EXCEPT ![p] = [IdleLoc EXCEPT !.op = op, !.current_user = u,
                                   !.group_id = g, !.user_id = user_id]]
    /\ UNCHANGED <<store_vars, now>>

\* The handler returns (a response or an HTTPException).
Return(p, result, ret) ==
    /\ pc' = [pc EXCEPT ![p] = "done"]
    /\ loc' = [loc EXCEPT ![p].result = result, ![p].ret = ret]

Goto(p, next) == pc' = [pc EXCEPT ![p] = next]

\* The response has been sent; the slot is free for the next request.
Finish(p) ==
    /\ pc[p] = "done"
    /\ pc' = [pc EXCEPT ![p] = "idle"]
    /\ loc' = [loc EXCEPT ![p] = IdleLoc]
    /\ UNCHANGED <<store_vars, now, nreq>>

(***************************************************************************)
(* Observer variables.  The handlers never read them.  With a single       *)
(* client that waits for each response, pre and last record the store      *)
(* before the running request and the request answered before it.          *)
(***************************************************************************)
Observed(p) ==
    /\ pre' = IF pc[p] = "idle" THEN [store |-> Store, at |-> now] ELSE pre
    /\ last' = IF pc[p] = "done"
               THEN [req |-> loc[p], before |-> pre.store, began |-> pre.at]
               ELSE last

Unobserved == UNCHANGED <<pre, last>>

\* Time passes between any two steps.
Tick ==
    /\ now < MaxTime
    /\ now' = now + 1
    /\ UNCHANGED <<store_vars, pc, loc, nreq>>

\* create_notification, once for each recipient in order
NotifyAll(recipients, type) ==
    [i \in 1..Len(recipients) |-> Notification(recipients[i], type)]

(***************************************************************************)
(* create_group                                                            *)
(***************************************************************************)
StartCreateGroup(p) ==
    \E u \in Users :
        /\ Len(groups) + Cardinality({q \in Procs : pc[q] = "cg_insert"}) < MaxGroups
        /\ Begin(p, "create_group", "cg_insert", u, NoId, NoId, NoId, "")

\* lines 452-483: the creator is the only member and the only admin
CreateGroupInsert(p) ==
    /\ pc[p] = "cg_insert"
    /\ groups' = Append(groups, Group(<<loc[p].current_user>>, <<loc[p].current_user>>))
    /\ Return(p, "ok", Len(groups) + 1)
    /\ UNCHANGED <<activities, submissions, users, notifications, leaderboard_history,
                   now, nreq>>

(***************************************************************************)
(* join_group.  A group's invite code is modelled by the group's id.        *)
(***************************************************************************)
StartJoin(p) ==
    \E u \in Users, g \in 1..(Len(groups) + 1) :
        /\ Begin(p, "join", "j_find", u, g, NoId, NoId, "")

\* lines 555-576 on the group read at line 555
JoinChecks(group, u) ==
    IF InSeq(u, group.members) THEN "AlreadyMember"
    ELSE IF Len(group.members) >= group.max_members THEN "GroupFull"
    ELSE "ok"

\* lines 555-576: group = find_one; 404; 400; 400
JoinFind(p) ==
    /\ pc[p] = "j_find"
    /\ IF loc[p].group_id > Len(groups)
       THEN Return(p, "NotFound", NoId)
       ELSE LET r == JoinChecks(groups[loc[p].group_id], loc[p].current_user)
            IN  IF r # "ok"
                THEN Return(p, r, NoId)
                ELSE /\ Goto(p, "j_push")
                     /\ loc' = [loc EXCEPT ![p].group = groups[loc[p].group_id]]
    /\ UNCHANGED <<store_vars, now, nreq>>

\* lines 578-581: $push members
JoinPush(p) ==
    /\ pc[p] = "j_push"
    /\ groups' = [groups EXCEPT ![loc[p].group_id].members = Push(@, loc[p].current_user)]
    /\ Goto(p, "j_notify")
    /\ UNCHANGED <<activities, submissions, users, notifications, leaderboard_history,
                   now, nreq, loc>>

\* lines 583-602: the group is read again and its admins, the caller excepted,
\* are notified
JoinNotify(p) ==
    /\ pc[p] = "j_notify"
    /\ notifications' = notifications \o
           NotifyAll(Pull(groups[loc[p].group_id].admins, loc[p].current_user), "group")
    /\ Return(p, "ok", loc[p].group_id)
    /\ UNCHANGED <<groups, activities, submissions, users, leaderboard_history,
                   now, nreq>>

(***************************************************************************)
(* remove_group_member                                                     *)
(***************************************************************************)
StartRemove(p) ==
    \E u \in Users, g \in 1..(Len(groups) + 1), user_id \in Users :
        /\ BeginAbout(p, "remove", "rm_find", u, g, user_id)

\* lines 618-638 on the group read at line 611
RemoveChecks(group, u, user_id) ==
    IF ~InSeq(u, group.admins) THEN "Forbidden"
    ELSE IF ~InSeq(user_id, group.members) THEN "NotMember"
    ELSE IF InSeq(user_id, group.admins) /\ Len(group.admins) = 1 THEN "LastAdmin"
    ELSE "ok"

\* lines 610-638: group = find_one; 404; 403; 400; 400
RemoveFind(p) ==
    /\ pc[p] = "rm_find"
    /\ IF loc[p].group_id > Len(groups)
       THEN Return(p, "NotFound", NoId)
       ELSE LET r == RemoveChecks(groups[loc[p].group_id], loc[p].current_user,
                                  loc[p].user_id)
            IN  IF r # "ok"
                THEN Return(p, r, NoId)
                ELSE /\ Goto(p, "rm_members")
                     /\ loc' = [loc EXCEPT ![p].group = groups[loc[p].group_id]]
    /\ UNCHANGED <<store_vars, now, nreq>>

\* lines 640-652: $pull members; the response follows unless the group read
\* at the start lists the user as an admin
RemoveMember(p) ==
    /\ pc[p] = "rm_members"
    /\ groups' = [groups EXCEPT ![loc[p].group_id].members = Pull(@, loc[p].user_id)]
    /\ IF InSeq(loc[p].user_id, loc[p].group.admins)
       THEN Goto(p, "rm_admins") /\ UNCHANGED loc
       ELSE Return(p, "ok", loc[p].group_id)
    /\ UNCHANGED <<activities, submissions, users, notifications, leaderboard_history,
                   now, nreq>>

\* lines 645-652: $pull admins
RemoveAdmin(p) ==
    /\ pc[p] = "rm_admins"
    /\ groups' = [groups EXCEPT ![loc[p].group_id].admins = Pull(@, loc[p].user_id)]
    /\ Return(p, "ok", loc[p].group_id)
    /\ UNCHANGED <<activities, submissions, users, notifications, leaderboard_history,
                   now, nreq>>

(***************************************************************************)
(* add_group_admin                                                         *)
(***************************************************************************)
StartAddAdmin(p) ==
    \E u \in Users, g \in 1..(Len(groups) + 1), user_id \in Users :
        /\ BeginAbout(p, "add_admin", "aa_find", u, g, user_id)

\* lines 668-688 on the group read at line 661
AddAdminChecks(group, u, user_id) ==
    IF ~InSeq(u, group.admins) THEN "Forbidden"
    ELSE IF ~InSeq(user_id, group.members) THEN "NotMember"
    ELSE IF InSeq(user_id, group.admins) THEN "AlreadyAdmin"
    ELSE "ok"

\* lines 660-688: group = find_one; 404; 403; 400; 400
AddAdminFind(p) ==
    /\ pc[p] = "aa_find"
    /\ IF loc[p].group_id > Len(groups)
       THEN Return(p, "NotFound", NoId)
       ELSE LET r == AddAdminChecks(groups[loc[p].group_id], loc[p].current_user,
                                    loc[p].user_id)
            IN  IF r # "ok"
                THEN Return(p, r, NoId)
                ELSE /\ Goto(p, "aa_push")
                     /\ loc' = [loc EXCEPT ![p].group = groups[loc[p].group_id]]
    /\ UNCHANGED <<store_vars, now, nreq>>

\* lines 690-696: $push admins
AddAdminPush(p) ==
    /\ pc[p] = "aa_push"
    /\ groups' = [groups EXCEPT ![loc[p].group_id].admins = Push(@, loc[p].user_id)]
    /\ Return(p, "ok", loc[p].group_id)
    /\ UNCHANGED <<activities, submissions, users, notifications, leaderboard_history,
                   now, nreq>>

(***************************************************************************)
(* create_activity                                                         *)
(***************************************************************************)
StartCreateActivity(p) ==
    \E u \in Users, g \in 1..(Len(groups) + 1) :
        /\ Len(activities) + Cardinality({q \in Procs : pc[q] = "ca_group"}) < MaxActs
        /\ Begin(p, "create_activity", "ca_group", u, g, NoId, NoId, "")

\* group lookup and membership check, then insert_one
CreateActivityStep(p) ==
    /\ pc[p] = "ca_group"
    /\ IF loc[p].group_id > Len(groups)
       THEN Return(p, "NotFound", NoId) /\ UNCHANGED activities
       ELSE IF ~InSeq(loc[p].current_user, groups[loc[p].group_id].members)
       THEN Return(p, "Forbidden", NoId) /\ UNCHANGED activities
       ELSE /\ activities' = Append(activities, Activity(loc[p].group_id, loc[p].current_user))
            /\ Return(p, "ok", Len(activities) + 1)
    /\ UNCHANGED <<groups, submissions, users, notifications, leaderboard_history,
                   now, nreq>>

(***************************************************************************)
(* select_daily_activity                                                   *)
(***************************************************************************)
StartSelectDaily(p) ==
    \E u \in Users, g \in 1..(Len(groups) + 1) :
        /\ Begin(p, "select_daily", "sd_group", u, g, NoId, NoId, "")

\* lines 749-761: group = find_one; 404 / 403
SelectDailyGroup(p) ==
    /\ pc[p] = "sd_group"
    /\ IF loc[p].group_id > Len(groups)
       THEN Return(p, "NotFound", NoId)
       ELSE IF ~InSeq(loc[p].current_user, groups[loc[p].group_id].members)
       THEN Return(p, "Forbidden", NoId)
       ELSE /\ Goto(p, "sd_today")
            /\ loc' = [loc EXCEPT ![p].group = groups[loc[p].group_id]]
    /\ UNCHANGED <<store_vars, now, nreq>>

\* lines 763-774: today = utcnow().date(); today_activity = find_one(window)
SelectDailyToday(p) ==
    /\ pc[p] = "sd_today"
    /\ LET found == TodayActivity(activities, loc[p].group_id, DateOf(now))
       IN  IF found # NoId
           THEN Return(p, "ok", found)
           ELSE /\ Goto(p, "sd_pending")
                /\ loc' = [loc EXCEPT ![p].today = DateOf(now)]
    /\ UNCHANGED <<store_vars, now, nreq>>

\* lines 776-789: pending = find(selected_for_date None); 400; random.choice
SelectDailyPending(p) ==
    /\ pc[p] = "sd_pending"
    /\ LET pending == PendingActivities(activities, loc[p].group_id)
       IN  IF pending = {}
           THEN Return(p, "NoActivitiesAvailable", NoId)
           ELSE \E a \in pending :
                    /\ Goto(p, "sd_stamp")
                    /\ loc' = [loc EXCEPT ![p].selected_activity = a]
    /\ UNCHANGED <<store_vars, now, nreq>>

\* Variant: the stamp is the date, without the time of day.
StampSelectedDateOnly(acts, a, t) ==
    [acts EXCEPT ![a].selected_for_date = Midnight(DateOf(t))]

\* lines 791-796: update_one({"id": selected}, {"$set": {"selected_for_date": utcnow()}})
StampSelected(acts, a, t) == [acts EXCEPT ![a].selected_for_date = t]

SelectDailyStamp(p) ==
    /\ pc[p] = "sd_stamp"
    /\ activities' = StampSelected(activities, loc[p].selected_activity, now)
    /\ Goto(p, "sd_notify")
    /\ UNCHANGED <<groups, submissions, users, notifications, leaderboard_history,
                   now, loc, nreq>>

\* Variant: the caller is notified as well.
SelectDailyNotifyEveryone(p) ==
    /\ pc[p] = "sd_notify"
    /\ notifications' = notifications \o NotifyAll(loc[p].group.members, "challenge")
    /\ Return(p, "ok", loc[p].selected_activity)
    /\ UNCHANGED <<groups, activities, submissions, users, leaderboard_history,
                   now, nreq>>

\* lines 800-820: one notification per member of the group read at the start,
\* except the caller; the response is the selected activity.
SelectDailyNotify(p) ==
    /\ pc[p] = "sd_notify"
    /\ notifications' = notifications \o
           NotifyAll(Pull(loc[p].group.members, loc[p].current_user), "challenge")
    /\ Return(p, "ok", loc[p].selected_activity)
    /\ UNCHANGED <<groups, activities, submissions, users, leaderboard_history,
                   now, nreq>>

(***************************************************************************)
(* create_submission                                                       *)
(***************************************************************************)
\* Requests that have not yet reached (or passed) their insert_one.
Inserting == {q \in Procs : pc[q] \in {"sb_activity", "sb_group", "sb_existing", "sb_insert"}}

StartSubmit(p) ==
    \E u \in Users, a \in 1..(Len(activities) + 1) :
        /\ Len(submissions) + Cardinality(Inserting) < MaxSubs
        /\ Begin(p, "submit", "sb_activity", u, NoId, a, NoId, "")

\* lines 832-838: activity = find_one; 404
SubmitActivity(p) ==
    /\ pc[p] = "sb_activity"
    /\ IF loc[p].activity_id > Len(activities)
       THEN Return(p, "NotFound", NoId)
       ELSE /\ Goto(p, "sb_group")
            /\ loc' = [loc EXCEPT ![p].activity = activities[loc[p].activity_id]]
    /\ UNCHANGED <<store_vars, now, nreq>>

\* Variant: the selected_for_date test made before the membership test.
SubmitChecksSelectedFirst(group, activity, u) ==
    IF activity.selected_for_date = NoDate THEN "NotYetSelected"
    ELSE IF ~InSeq(u, group.members) THEN "Forbidden"
    ELSE "ok"

\* Variant: only the membership test is made.
SubmitChecksMembershipOnly(group, activity, u) ==
    IF ~InSeq(u, group.members) THEN "Forbidden" ELSE "ok"

\* lines 840-853: group = find_one; 403; then the activity read before must
\* carry a selected_for_date; 400
SubmitChecks(group, activity, u) ==
    IF ~InSeq(u, group.members) THEN "Forbidden"
    ELSE IF activity.selected_for_date = NoDate THEN "NotYetSelected"
    ELSE "ok"

SubmitGroup(p) ==
    /\ pc[p] = "sb_group"
    /\ LET group == groups[loc[p].activity.group_id]
           r == SubmitChecks(group, loc[p].activity, loc[p].current_user)
       IN  IF r # "ok"
           THEN Return(p, r, NoId)
           ELSE /\ Goto(p, "sb_existing")
                /\ loc' = [loc EXCEPT ![p].group = group]
    /\ UNCHANGED <<store_vars, now, nreq>>

\* db.submissions.find_one({activity_id, user_id})
ExistingSubmission(subs, a, u) ==
    \E i \in 1..Len(subs) : subs[i].activity_id = a /\ subs[i].user_id = u

\* Variant: the document inserted before the duplicate test answers.
SubmitExistingAfterInsert(p) ==
    /\ pc[p] = "sb_existing"
    /\ submissions' = Append(submissions, Submission(loc[p].activity_id, loc[p].current_user))
    /\ IF ExistingSubmission(submissions, loc[p].activity_id, loc[p].current_user)
       THEN Return(p, "DuplicateSubmission", NoId)
       ELSE /\ Goto(p, "sb_inc")
            /\ loc' = [loc EXCEPT ![p].ret = Len(submissions) + 1]
    /\ UNCHANGED <<groups, activities, users, notifications, leaderboard_history,
                   now, nreq>>

\* lines 855-865: existing_submission = find_one; 400
SubmitExisting(p) ==
    /\ pc[p] = "sb_existing"
    /\ IF ExistingSubmission(submissions, loc[p].activity_id, loc[p].current_user)
       THEN Return(p, "DuplicateSubmission", NoId)
       ELSE Goto(p, "sb_insert") /\ UNCHANGED loc
    /\ UNCHANGED <<store_vars, now, nreq>>

\* lines 867-898: the document is built and inserted
SubmitInsert(p) ==
    /\ pc[p] = "sb_insert"
    /\ submissions' = Append(submissions, Submission(loc[p].activity_id, loc[p].current_user))
    /\ Goto(p, "sb_inc")
    /\ loc' = [loc EXCEPT ![p].ret = Len(submissions) + 1]
    /\ UNCHANGED <<groups, activities, users, notifications, leaderboard_history,
                   now, nreq>>

\* Variant: the lifetime points incremented instead of the challenge counter.
SubmitIncPoints(p) ==
    /\ pc[p] = "sb_inc"
    /\ users' = [users EXCEPT ![loc[p].current_user].total_points = @ + 1]
    /\ Goto(p, "sb_count")
    /\ UNCHANGED <<groups, activities, submissions, notifications, leaderboard_history,
                   now, loc, nreq>>

\* lines 900-904: $inc completed_challenges
SubmitInc(p) ==
    /\ pc[p] = "sb_inc"
    /\ users' = [users EXCEPT ![loc[p].current_user].completed_challenges = @ + 1]
    /\ Goto(p, "sb_count")
    /\ UNCHANGED <<groups, activities, submissions, notifications, leaderboard_history,
                   now, loc, nreq>>

\* db.submissions.count_documents({activity_id})
SubmissionCount(subs, a) == Cardinality({i \in 1..Len(subs) : subs[i].activity_id = a})

\* Variant: the activity completed only when the count exceeds the members.
AllSubmittedStrictly(subs, a, group) == SubmissionCount(subs, a) > Len(group.members)

\* Variant: the activity completed only on an exact match of the counts.
AllSubmittedExactly(subs, a, group) == SubmissionCount(subs, a) = Len(group.members)

\* line 910: submission_count >= group_member_count, against the group read
\* at the start of the request
AllSubmitted(subs, a, group) == SubmissionCount(subs, a) >= Len(group.members)

\* lines 906-910
SubmitCount(p) ==
    /\ pc[p] = "sb_count"
    /\ IF AllSubmitted(submissions, loc[p].activity_id, loc[p].group)
       THEN Goto(p, "sb_complete")
       ELSE Goto(p, "sb_notify")
    /\ UNCHANGED <<store_vars, now, loc, nreq>>

\* lines 911-914: $set is_completed
SubmitComplete(p) ==
    /\ pc[p] = "sb_complete"
    /\ activities' = [activities EXCEPT ![loc[p].activity_id].is_completed = TRUE]
    /\ Goto(p, "sb_notify")
    /\ UNCHANGED <<groups, submissions, users, notifications, leaderboard_history,
                   now, loc, nreq>>

\* Variant: a failure takes the inserted submission back.
SubmitFailRollback(p) ==
    /\ pc[p] \in {"sb_inc", "sb_count", "sb_complete"}
    /\ submissions' = SubSeq(submissions, 1, loc[p].ret - 1)
                      \o SubSeq(submissions, loc[p].ret + 1, Len(submissions))
    /\ Return(p, "ServerError", NoId)
    /\ UNCHANGED <<groups, activities, users, notifications, leaderboard_history,
                   now, nreq>>

\* lines 900-914: one of the awaits after insert_one raises (the database is
\* unreachable, the request is cancelled); the handler catches nothing, so
\* the request ends there with what it has written so far.
SubmitFail(p) ==
    /\ pc[p] \in {"sb_inc", "sb_count", "sb_complete"}
    /\ Return(p, "ServerError", NoId)
    /\ UNCHANGED <<store_vars, now, nreq>>

\* Variant: every member except the submitter is notified.
SubmitRecipientsMembers(group, u) == SelectSeq(group.members, LAMBDA m : m # u)

\* lines 916-932: members that are admins, except the submitter
SubmitRecipients(group, u) ==
    SelectSeq(group.members, LAMBDA m : m # u /\ InSeq(m, group.admins))

SubmitNotify(p) ==
    /\ pc[p] = "sb_notify"
    /\ notifications' = notifications \o
           NotifyAll(SubmitRecipients(loc[p].group, loc[p].current_user), "submission")
    /\ Return(p, "ok", loc[p].ret)
    /\ UNCHANGED <<groups, activities, submissions, users, leaderboard_history,
                   now, nreq>>

(***************************************************************************)
(* vote_submission                                                         *)
(***************************************************************************)
StartVote(p) ==
    \E u \in Users, s \in 1..(Len(submissions) + 1) :
        /\ Begin(p, "vote", "v_find", u, NoId, NoId, s, "")

\* lines 936-942: submission = find_one; 404
VoteFind(p) ==
    /\ pc[p] = "v_find"
    /\ IF loc[p].submission_id > Len(submissions)
       THEN Return(p, "NotFound", NoId)
       ELSE /\ Goto(p, "v_group")
            /\ loc' = [loc EXCEPT ![p].submission = submissions[loc[p].submission_id]]
    /\ UNCHANGED <<store_vars, now, nreq>>

\* lines 944-952: activity and group of the submission; 403.  An activity's
\* group_id never changes, so the two reads are one step.
VoteGroup(p) ==
    /\ pc[p] = "v_group"
    /\ LET group == groups[activities[loc[p].submission.activity_id].group_id]
       IN  IF ~InSeq(loc[p].current_user, group.members)
           THEN Return(p, "Forbidden", NoId)
           ELSE /\ Goto(p, "v_write")
                /\ loc' = [loc EXCEPT ![p].group = group]
    /\ UNCHANGED <<store_vars, now, nreq>>

\* Variant: the vote pushed whether or not the caller had voted.
VoteUpdateAlwaysPush(votes, seen, u) == Push(votes, u)

\* lines 954-968: $pull when the submission read before holds the caller's
\* vote, $push otherwise; the update itself is atomic on the stored array.
VoteUpdate(votes, seen, u) == IF InSeq(u, seen) THEN Pull(votes, u) ELSE Push(votes, u)

VoteWrite(p) ==
    /\ pc[p] = "v_write"
    /\ submissions' = [submissions EXCEPT ![loc[p].submission_id].votes =
                           VoteUpdate(@, loc[p].submission.votes, loc[p].current_user)]
    /\ Goto(p, "v_after")
    /\ loc' = [loc EXCEPT ![p].vote_added = ~InSeq(loc[p].current_user, loc[p].submission.votes)]
    /\ UNCHANGED <<groups, activities, users, notifications, leaderboard_history,
                   now, nreq>>

\* Variant: a removed vote takes the author's point back.
VoteAfterTakeBack(p) ==
    /\ pc[p] = "v_after"
    /\ IF loc[p].submission.user_id # loc[p].current_user
       THEN IF loc[p].vote_added
            THEN /\ notifications' =
                        Append(notifications, Notification(loc[p].submission.user_id, "vote"))
                 /\ users' = [users EXCEPT ![loc[p].submission.user_id].total_points = @ + 1]
            ELSE /\ users' = [users EXCEPT ![loc[p].submission.user_id].total_points = @ - 1]
                 /\ UNCHANGED notifications
       ELSE UNCHANGED <<notifications, users>>
    /\ Return(p, "ok", loc[p].submission_id)
    /\ UNCHANGED <<groups, activities, submissions, leaderboard_history, now, nreq>>

\* Variant: the point awarded for every added vote, the caller's own included.
VoteAfterAwardAlways(p) ==
    /\ pc[p] = "v_after"
    /\ IF loc[p].vote_added
       THEN /\ notifications' =
                   IF loc[p].submission.user_id # loc[p].current_user
                   THEN Append(notifications, Notification(loc[p].submission.user_id, "vote"))
                   ELSE notifications
            /\ users' = [users EXCEPT ![loc[p].submission.user_id].total_points = @ + 1]
       ELSE UNCHANGED <<notifications, users>>
    /\ Return(p, "ok", loc[p].submission_id)
    /\ UNCHANGED <<groups, activities, submissions, leaderboard_history, now, nreq>>

\* lines 970-997: for an added vote on somebody else's submission, a
\* notification and one lifetime point for the author.
VoteAfter(p) ==
    /\ pc[p] = "v_after"
    /\ IF loc[p].vote_added /\ loc[p].submission.user_id # loc[p].current_user
       THEN /\ notifications' = Append(notifications,
                                       Notification(loc[p].submission.user_id, "vote"))
            /\ users' = [users EXCEPT ![loc[p].submission.user_id].total_points = @ + 1]
       ELSE UNCHANGED <<notifications, users>>
    /\ Return(p, "ok", loc[p].submission_id)
    /\ UNCHANGED <<groups, activities, submissions, leaderboard_history, now, nreq>>

(***************************************************************************)
(* react_to_submission                                                     *)
(***************************************************************************)
StartReact(p) ==
    \E u \in Users, s \in 1..(Len(submissions) + 1), e \in Emojis :
        /\ Begin(p, "react", "r_find", u, NoId, NoId, s, e)

\* lines 1005-1011: submission = find_one; 404
ReactFind(p) ==
    /\ pc[p] = "r_find"
    /\ IF loc[p].submission_id > Len(submissions)
       THEN Return(p, "NotFound", NoId)
       ELSE /\ Goto(p, "r_group")
            /\ loc' = [loc EXCEPT ![p].submission = submissions[loc[p].submission_id]]
    /\ UNCHANGED <<store_vars, now, nreq>>

\* lines 1023-1039 on the handler's own copy of the reactions dict
WithKey(reactions, emoji) ==
    [e \in DOMAIN reactions \cup {emoji} |->
        IF e \in DOMAIN reactions THEN reactions[e] ELSE <<>>]

WithoutKey(reactions, emoji) == [e \in DOMAIN reactions \ {emoji} |-> reactions[e]]

\* Variant: the emoji entry deleted whenever a user leaves it.
ReactionRemoveKey(reactions, emoji, u) == WithoutKey(reactions, emoji)

\* Variant: the emoji entry kept when its last user leaves it.
ReactionRemoveKeepKey(reactions, emoji, u) ==
    [reactions EXCEPT ![emoji] = RemoveFirst(@, u)]

ReactionRemove(reactions, emoji, u) ==
    LET rest == RemoveFirst(reactions[emoji], u)
    IN  IF rest = <<>> THEN WithoutKey(reactions, emoji)
                       ELSE [reactions EXCEPT ![emoji] = rest]

ToggleReaction(reactions, emoji, u) ==
    LET r == WithKey(reactions, emoji)
    IN  IF InSeq(u, r[emoji])
        THEN ReactionRemove(r, emoji, u)
        ELSE [r EXCEPT ![emoji] = Append(@, u)]

\* lines 1013-1039: 403, then the dict is changed in memory
ReactGroup(p) ==
    /\ pc[p] = "r_group"
    /\ LET group == groups[activities[loc[p].submission.activity_id].group_id]
       IN  IF ~InSeq(loc[p].current_user, group.members)
           THEN Return(p, "Forbidden", NoId)
           ELSE /\ Goto(p, "r_write")
                /\ loc' = [loc EXCEPT ![p].group = group,
                                      ![p].submission.reactions =
                                          ToggleReaction(@, loc[p].emoji, loc[p].current_user)]
    /\ UNCHANGED <<store_vars, now, nreq>>

\* Variant: a reaction notifies the submission's author, as a vote does.
ReactWriteNotify(p) ==
    /\ pc[p] = "r_write"
    /\ submissions' = [submissions EXCEPT ![loc[p].submission_id].reactions =
                           loc[p].submission.reactions]
    /\ notifications' = Append(notifications, Notification(loc[p].submission.user_id, "vote"))
    /\ Return(p, "ok", loc[p].submission_id)
    /\ UNCHANGED <<groups, activities, users, leaderboard_history, now, nreq>>

\* lines 1041-1050: $set of the whole reactions dict
ReactWrite(p) ==
    /\ pc[p] = "r_write"
    /\ submissions' = [submissions EXCEPT ![loc[p].submission_id].reactions =
                           loc[p].submission.reactions]
    /\ Return(p, "ok", loc[p].submission_id)
    /\ UNCHANGED <<groups, activities, users, notifications, leaderboard_history,
                   now, nreq>>

(***************************************************************************)
(* get_group_leaderboard                                                   *)
(***************************************************************************)
StartLeaderboard(p) ==
    \E u \in Users, g \in 1..(Len(groups) + 1) :
        /\ Begin(p, "leaderboard", "lb_group", u, g, NoId, NoId, "")

\* lines 1100-1112: group = find_one; 404 / 403
LeaderboardGroup(p) ==
    /\ pc[p] = "lb_group"
    /\ IF loc[p].group_id > Len(groups)
       THEN Return(p, "NotFound", NoId)
       ELSE IF ~InSeq(loc[p].current_user, groups[loc[p].group_id].members)
       THEN Return(p, "Forbidden", NoId)
       ELSE /\ Goto(p, "lb_prev")
            /\ loc' = [loc EXCEPT ![p].group = groups[loc[p].group_id]]
    /\ UNCHANGED <<store_vars, now, nreq>>

\* Variant: the sort taken ascending, so the oldest snapshot is found.
PreviousLeaderboardOldest(history, g) ==
    LET hits == {i \in 1..Len(history) : history[i].group_id = g}
    IN  IF hits = {} THEN <<>>
        ELSE history[CHOOSE i \in hits : \A j \in hits : i <= j].entries

\* lines 1116-1119: find_one({group_id}, sort created_at descending); created_at
\* is taken right before the insert, so the newest snapshot is the last inserted.
PreviousLeaderboard(history, g) ==
    LET hits == {i \in 1..Len(history) : history[i].group_id = g}
    IN  IF hits = {} THEN <<>>
        ELSE history[CHOOSE i \in hits : \A j \in hits : j <= i].entries

\* lines 1130-1136: the rank of the first entry of that user, 0 without one
PreviousRank(entries, u) ==
    LET hits == {i \in 1..Len(entries) : entries[i].user_id = u}
    IN  IF hits = {} THEN 0
        ELSE entries[CHOOSE i \in hits : \A j \in hits : i <= j].rank

\* Variant: the user's submissions counted whatever their activity's group.
SubmissionsCountAnyGroup(subs, acts, g, u) ==
    Cardinality({i \in 1..Len(subs) : subs[i].user_id = u})

\* lines 1125-1128: count_documents({user_id, activity_id in the group's activities})
SubmissionsCount(subs, acts, g, u) ==
    Cardinality({i \in 1..Len(subs) :
                    /\ subs[i].user_id = u
                    /\ subs[i].activity_id \in 1..Len(acts)
                    /\ acts[subs[i].activity_id].group_id = g})

\* Variant: only the highest tier reached is awarded.
BadgesHighestOnly(c) ==
    IF c >= 50 THEN <<"champion">>
    ELSE IF c >= 30 THEN <<"committed">>
    ELSE IF c >= 10 THEN <<"regular">>
    ELSE <<>>

\* lines 1141-1149
Badges(c) ==
    (IF c >= 10 THEN <<"regular">> ELSE <<>>) \o
    (IF c >= 30 THEN <<"committed">> ELSE <<>>) \o
    (IF c >= 50 THEN <<"champion">> ELSE <<>>)

\* lines 1158-1170; score_x2 is twice the score, so that half points stay integers
LeaderboardEntry(u, g, previous_rank, count) ==
    [user_id |-> u, group_id |-> g, score_x2 |-> 0, rank |-> 0,
     previous_rank |-> previous_rank, badges |-> Badges(count),
     submissions_count |-> count]

\* Variant: with a previous snapshot, the entries are built from the last
\* member to the first.
InitialEntriesAfterPrevious(group, g, previous, subs, acts) ==
    [i \in 1..Len(group.members) |->
        LET m == IF previous = <<>> THEN group.members[i]
                 ELSE group.members[Len(group.members) + 1 - i]
        IN  LeaderboardEntry(m, g, PreviousRank(previous, m),
                             SubmissionsCount(subs, acts, g, m))]

\* Variant: the members' entries are followed by entries for the authors of the
\* group's submissions who are not members.
InitialEntriesWithAuthors(group, g, previous, subs, acts) ==
    LET authors == SelectSeq([i \in 1..Len(subs) |-> subs[i].user_id],
                             LAMBDA u : ~InSeq(u, group.members))
        listed == group.members \o authors
    IN  [i \in 1..Len(listed) |->
            LeaderboardEntry(listed[i], g, PreviousRank(previous, listed[i]),
                             SubmissionsCount(subs, acts, g, listed[i]))]

\* lines 1121-1170: one entry per element of the member list, in its order
InitialEntries(group, g, previous, subs, acts) ==
    [i \in 1..Len(group.members) |->
        LeaderboardEntry(group.members[i], g, PreviousRank(previous, group.members[i]),
                         SubmissionsCount(subs, acts, g, group.members[i]))]

\* line 1192: sum(len(users) for users in reactions.values())
RECURSIVE ReactionCountOver(_, _)
ReactionCountOver(reactions, keys) ==
    IF keys = {} THEN 0
    ELSE LET e == CHOOSE k \in keys : TRUE
         IN  Len(reactions[e]) + ReactionCountOver(reactions, keys \ {e})

ReactionCount(reactions) == ReactionCountOver(reactions, DOMAIN reactions)

\* Variant: the author's own vote gives no point.
SubmissionPointsOthersOnly(sub) ==
    2 + 2 * Len(Pull(sub.votes, sub.user_id)) + ReactionCount(sub.reactions)

\* Variant: the half points of the reactions rounded down to whole points.
SubmissionPointsWhole(sub) == 2 + 2 * Len(sub.votes) + 2 * (ReactionCount(sub.reactions) \div 2)

\* lines 1185-1193, doubled: 1 for the submission, 1 per vote, 0.5 per reaction
SubmissionPoints(sub) == 2 + 2 * Len(sub.votes) + ReactionCount(sub.reactions)

\* lines 1172-1193: every submission on an activity of the group adds its
\* points to each entry of its author
RECURSIVE ScoreOf(_, _, _, _, _)
ScoreOf(u, g, subs, acts, n) ==
    IF n = 0 THEN 0
    ELSE ScoreOf(u, g, subs, acts, n - 1) +
         (IF /\ subs[n].user_id = u
             /\ subs[n].activity_id \in 1..Len(acts)
             /\ acts[subs[n].activity_id].group_id = g
          THEN SubmissionPoints(subs[n]) ELSE 0)

Scored(entries, g, subs, acts) ==
    [i \in 1..Len(entries) |->
        [entries[i] EXCEPT !.score_x2 = ScoreOf(entries[i].user_id, g, subs, acts, Len(subs))]]

\* Variant: an entry placed before the entries of equal score.
InsertByScoreBeforeEqual(sorted, e) ==
    LET k == Cardinality({i \in 1..Len(sorted) : sorted[i].score_x2 > e.score_x2})
    IN  SubSeq(sorted, 1, k) \o <<e>> \o SubSeq(sorted, k + 1, Len(sorted))

\* line 1196: list.sort(key=score, reverse=True) is stable: entries of equal
\* score keep their order
InsertByScore(sorted, e) ==
    LET k == Cardinality({i \in 1..Len(sorted) : sorted[i].score_x2 >= e.score_x2})
    IN  SubSeq(sorted, 1, k) \o <<e>> \o SubSeq(sorted, k + 1, Len(sorted))

\* Variant: the entries left in member order.
SortByScoreKeepOrder(entries, n) == SubSeq(entries, 1, n)

RECURSIVE SortByScore(_, _)
SortByScore(entries, n) ==
    IF n = 0 THEN <<>> ELSE InsertByScore(SortByScore(entries, n - 1), entries[n])

\* lines 1198-1200
Ranked(entries) == [i \in 1..Len(entries) |-> [entries[i] EXCEPT !.rank = i]]

\* lines 1172-1200
ComputeLeaderboard(entries, g, subs, acts) ==
    LET scored == Scored(entries, g, subs, acts)
    IN  Ranked(SortByScore(scored, Len(scored)))

\* lines 1116-1119
LeaderboardPrev(p) ==
    /\ pc[p] = "lb_prev"
    /\ Goto(p, "lb_entries")
    /\ loc' = [loc EXCEPT ![p].leaderboard = PreviousLeaderboard(leaderboard_history, loc[p].group_id)]
    /\ UNCHANGED <<store_vars, now, nreq>>

\* lines 1121-1170: the entries, with the counts read now
LeaderboardEntries(p) ==
    /\ pc[p] = "lb_entries"
    /\ Goto(p, "lb_score")
    /\ loc' = [loc EXCEPT ![p].leaderboard =
                  InitialEntries(loc[p].group, loc[p].group_id, @, submissions, activities)]
    /\ UNCHANGED <<store_vars, now, nreq>>

\* lines 1172-1200: the scores, with the submissions read now; sort; ranks
LeaderboardScore(p) ==
    /\ pc[p] = "lb_score"
    /\ Goto(p, "lb_insert")
    /\ loc' = [loc EXCEPT ![p].leaderboard =
                  ComputeLeaderboard(@, loc[p].group_id, submissions, activities)]
    /\ UNCHANGED <<store_vars, now, nreq>>

\* lines 1202-1212: the snapshot is inserted and the list returned
Snapshot(g, t, entries) == [group_id |-> g, created_at |-> t, entries |-> entries]

\* Variant: the group's newest snapshot replaced when there is one.
LeaderboardUpsert(p) ==
    /\ pc[p] = "lb_insert"
    /\ LET hits == {i \in 1..Len(leaderboard_history) :
                       leaderboard_history[i].group_id = loc[p].group_id}
           new == Snapshot(loc[p].group_id, now, loc[p].leaderboard)
       IN  leaderboard_history' =
               IF hits = {} THEN Append(leaderboard_history, new)
               ELSE [leaderboard_history EXCEPT
                        ![CHOOSE i \in hits : \A j \in hits : j <= i] = new]
    /\ Return(p, "ok", Len(leaderboard_history) + 1)
    /\ UNCHANGED <<groups, activities, submissions, users, notifications,
                   now, nreq>>

\* Variant: no snapshot stored when the group's newest one has these entries.
LeaderboardInsertIfChanged(p) ==
    /\ pc[p] = "lb_insert"
    /\ LET hits == {i \in 1..Len(leaderboard_history) :
                       leaderboard_history[i].group_id = loc[p].group_id}
           newest == CHOOSE i \in hits : \A j \in hits : j <= i
       IN  leaderboard_history' =
               IF hits # {} /\ leaderboard_history[newest].entries = loc[p].leaderboard
               THEN leaderboard_history
               ELSE Append(leaderboard_history,
                           Snapshot(loc[p].group_id, now, loc[p].leaderboard))
    /\ Return(p, "ok", Len(leaderboard_history) + 1)
    /\ UNCHANGED <<groups, activities, submissions, users, notifications,
                   now, nreq>>

LeaderboardInsert(p) ==
    /\ pc[p] = "lb_insert"
    /\ leaderboard_history' = Append(leaderboard_history,
                                     Snapshot(loc[p].group_id, now, loc[p].leaderboard))
    /\ Return(p, "ok", Len(leaderboard_history) + 1)
    /\ UNCHANGED <<groups, activities, submissions, users, notifications,
                   now, nreq>>

(***************************************************************************)
(* Initial stores: states the service is in after some requests.           *)
(***************************************************************************)
Group1 == Group(<<"A", "B">>, <<"A">>)

SelectedActivity(g, by, t) == [Activity(g, by) EXCEPT !.selected_for_date = t]

\* No request is running at time t.
InitProcsAt(t) ==
    /\ now = t
    /\ pc = [p \in Procs |-> "idle"]
    /\ loc = [p \in Procs |-> IdleLoc]
    /\ nreq = 0
    /\ pre = [store |-> Store, at |-> now]
    /\ last = [req |-> IdleLoc, before |-> Store, began |-> now]

InitProcs == InitProcsAt(TicksPerDay)

\* A created the group and B joined it (the admin A was notified); they
\* proposed some activities.
InitSelect ==
    /\ groups = <<Group1>>
    /\ activities \in {<<>>, <<Activity(1, "A")>>, <<Activity(1, "A"), Activity(1, "B")>>}
    /\ submissions = <<>>
    /\ users = [u \in Users |-> User]
    /\ notifications = <<Notification("A", "group")>>
    /\ leaderboard_history = <<>>
    /\ InitProcs

\* A proposed an activity and selected it today; B was notified.
InitSubmit ==
    /\ groups = <<Group1>>
    /\ activities = <<SelectedActivity(1, "A", TicksPerDay)>>
    /\ submissions = <<>>
    /\ users = [u \in Users |-> User]
    /\ notifications = <<Notification("A", "group"), Notification("B", "challenge")>>
    /\ leaderboard_history = <<>>
    /\ InitProcs

\* ... and B submitted (the admin A was notified); A may have voted for the
\* submission and may have reacted to it.
InitEngage ==
    \E voted \in BOOLEAN, reacted \in BOOLEAN :
        /\ groups = <<Group1>>
        /\ activities = <<SelectedActivity(1, "A", TicksPerDay)>>
        /\ submissions = <<[Submission(1, "B") EXCEPT
                              !.votes = IF voted THEN <<"A">> ELSE <<>>,
                              !.reactions = IF reacted THEN [e \in {"fire"} |-> <<"A">>]
                                            ELSE EmptyReactions]>>
        /\ users = [u \in Users |->
                      IF u = "B" THEN [total_points |-> IF voted THEN 1 ELSE 0,
                                       completed_challenges |-> 1]
                      ELSE User]
        /\ notifications = <<Notification("A", "group"), Notification("B", "challenge"),
                             Notification("A", "submission")>>
                           \o (IF voted THEN <<Notification("B", "vote")>> ELSE <<>>)
        /\ leaderboard_history = <<>>
        /\ InitProcs

\* Stores for the leaderboard.  The first of members created the group and
\* the others joined in order; the creator proposed an activity and selected
\* it today; then some members submitted, in member order, and the creator
\* voted for, or reacted to, some of the submissions.
MemberLists ==
    {m \in UNION {[1..n -> Users] : n \in 1..Cardinality(Users)} :
        \A i, j \in 1..Len(m) : m[i] = m[j] => i = j}

Engagements == {"none", "plain", "voted", "reacted"}

RankSubmission(u, kind, creator) ==
    [Submission(1, u) EXCEPT
        !.votes = IF kind = "voted" THEN <<creator>> ELSE <<>>,
        !.reactions = IF kind = "reacted" THEN [e \in {"fire"} |-> <<creator>>]
                      ELSE EmptyReactions]

InitRank ==
    \E members \in MemberLists, part \in [Users -> Engagements] :
        LET creator == members[1]
            authors == SelectSeq(members, LAMBDA u : part[u] # "none")
            voted == SelectSeq(authors, LAMBDA u : part[u] = "voted" /\ u # creator)
        IN  /\ \A u \in Users \ SetOf(members) : part[u] = "none"
            /\ groups = <<Group(members, <<creator>>)>>
            /\ activities = <<[SelectedActivity(1, creator, TicksPerDay) EXCEPT
                                  !.is_completed = (Len(authors) = Len(members))]>>
            /\ submissions = [i \in 1..Len(authors) |->
                                 RankSubmission(authors[i], part[authors[i]], creator)]
            /\ users = [u \in Users |->
                          [total_points |-> IF InSeq(u, voted) THEN 1 ELSE 0,
                           completed_challenges |-> IF InSeq(u, authors) THEN 1 ELSE 0]]
            /\ notifications =
                   NotifyAll([i \in 1..(Len(members) - 1) |-> creator], "group")
                   \o NotifyAll(Pull(members, creator), "challenge")
                   \o NotifyAll([i \in 1..Len(Pull(authors, creator)) |-> creator], "submission")
                   \o NotifyAll(voted, "vote")
            /\ leaderboard_history = <<>>
            /\ InitProcs

\* Stores with a long history: on each of c days A proposed an activity and
\* selected it, B was notified and submitted, and the admin A was notified.
InitBadges ==
    \E c \in 0..MaxCount :
        /\ groups = <<Group1>>
        /\ activities = [i \in 1..c |-> SelectedActivity(1, "A", i * TicksPerDay)]
        /\ submissions = [i \in 1..c |-> Submission(i, "B")]
        /\ users = [u \in Users |->
                      IF u = "B" THEN [User EXCEPT !.completed_challenges = c] ELSE User]
        /\ notifications =
               <<Notification("A", "group")>> \o
               [k \in 1..(2 * c) |-> IF k % 2 = 1 THEN Notification("B", "challenge")
                                     ELSE Notification("A", "submission")]
        /\ leaderboard_history = <<>>
        /\ InitProcsAt((c + 1) * TicksPerDay)

\* The store of InitEngage in which a leaderboard may have been computed
\* before B submitted: nobody had a score, A and B ranked in member order.
EarlyEntries ==
    <<[LeaderboardEntry("A", 1, 0, 0) EXCEPT !.rank = 1],
      [LeaderboardEntry("B", 1, 0, 0) EXCEPT !.rank = 2]>>

InitHistory ==
    \E voted \in BOOLEAN, computed \in BOOLEAN :
        /\ groups = <<Group1>>
        /\ activities = <<SelectedActivity(1, "A", TicksPerDay)>>
        /\ submissions = <<[Submission(1, "B") EXCEPT
                              !.votes = IF voted THEN <<"A">> ELSE <<>>]>>
        /\ users = [u \in Users |->
                      IF u = "B" THEN [total_points |-> IF voted THEN 1 ELSE 0,
                                       completed_challenges |-> 1]
                      ELSE User]
        /\ notifications = <<Notification("A", "group"), Notification("B", "challenge"),
                             Notification("A", "submission")>>
                           \o (IF voted THEN <<Notification("B", "vote")>> ELSE <<>>)
        /\ leaderboard_history =
               IF computed THEN <<Snapshot(1, TicksPerDay, EarlyEntries)>> ELSE <<>>
        /\ InitProcs

\* Stores on the way to completion: A created the group, B and perhaps C
\* joined; A proposed an activity and selected it today; then B, or B and
\* then A, may have submitted.
InitComplete ==
    \E joined \in BOOLEAN, n \in 0..2 :
        LET members == IF joined THEN <<"A", "B", "C">> ELSE <<"A", "B">>
            authors == SubSeq(<<"B", "A">>, 1, n)
        IN  /\ groups = <<Group(members, <<"A">>)>>
            /\ activities = <<[SelectedActivity(1, "A", TicksPerDay) EXCEPT
                                  !.is_completed = (n >= Len(members))]>>
            /\ submissions = [i \in 1..n |-> Submission(1, authors[i])]
            /\ users = [u \in Users |->
                          [User EXCEPT !.completed_challenges =
                                           IF InSeq(u, authors) THEN 1 ELSE 0]]
            /\ notifications =
                   NotifyAll([i \in 1..(Len(members) - 1) |-> "A"], "group")
                   \o NotifyAll(Pull(members, "A"), "challenge")
                   \o NotifyAll(Pull(authors, "A"), "submission")
            /\ leaderboard_history = <<>>
            /\ InitProcs

\* Stores with two groups.  A created group 1 and B, or B and then C, may
\* have joined it; C created group 2 and is its only member.  The creators
\* proposed activities for their groups, and yesterday each creator may have
\* selected one activity of the own group (the other members were notified).
DailyMembers == {<<"A">>, <<"A", "B">>, <<"A", "B", "C">>}

Yesterday == TicksPerDay - 1

DailyActivities ==
    {Activity(1, "A"), Activity(2, "C"),
     SelectedActivity(1, "A", Yesterday), SelectedActivity(2, "C", Yesterday)}

InitDaily ==
    \E members \in DailyMembers,
       acts \in UNION {[1..n -> DailyActivities] : n \in 0..MaxActs} :
        /\ \A i, j \in 1..Len(acts) :
               (/\ acts[i].selected_for_date # NoDate
                /\ acts[j].selected_for_date # NoDate
                /\ acts[i].group_id = acts[j].group_id) => i = j
        /\ groups = <<Group(members, <<"A">>), Group(<<"C">>, <<"C">>)>>
        /\ activities = acts
        /\ submissions = <<>>
        /\ users = [u \in Users |-> User]
        /\ notifications =
               NotifyAll([i \in 1..(Len(members) - 1) |-> "A"], "group")
               \o (IF \E i \in 1..Len(acts) : acts[i] = SelectedActivity(1, "A", Yesterday)
                   THEN NotifyAll(Pull(members, "A"), "challenge") ELSE <<>>)
        /\ leaderboard_history = <<>>
        /\ InitProcs

\* Any of these stores, for a single client.
InitSeq == InitSelect \/ InitSubmit \/ InitEngage

NextSelect ==
    \/ Tick /\ Unobserved
    \/ \E p \in Procs :
        \/ StartCreateActivity(p) /\ Unobserved
        \/ CreateActivityStep(p) /\ Unobserved
        \/ StartSelectDaily(p) /\ Unobserved
        \/ SelectDailyGroup(p) /\ Unobserved
        \/ SelectDailyToday(p) /\ Unobserved
        \/ SelectDailyPending(p) /\ Unobserved
        \/ SelectDailyStamp(p) /\ Unobserved
        \/ SelectDailyNotify(p) /\ Unobserved
        \/ Finish(p) /\ Unobserved

SpecSelect == InitSelect /\ [][NextSelect]_vars

\* Concurrent submissions.
NextSubmit ==
    \E p \in Procs :
        \/ StartSubmit(p) /\ Unobserved
        \/ SubmitActivity(p) /\ Unobserved
        \/ SubmitGroup(p) /\ Unobserved
        \/ SubmitExisting(p) /\ Unobserved
        \/ SubmitInsert(p) /\ Unobserved
        \/ SubmitInc(p) /\ Unobserved
        \/ SubmitCount(p) /\ Unobserved
        \/ SubmitComplete(p) /\ Unobserved
        \/ SubmitNotify(p) /\ Unobserved
        \/ Finish(p) /\ Unobserved

SpecSubmit == InitSubmit /\ [][NextSubmit]_vars

\* The event loop resumes every handler that has been started: each await of
\* a running request eventually returns.
SubmitProgress(p) ==
    \/ SubmitActivity(p) /\ Unobserved
    \/ SubmitGroup(p) /\ Unobserved
    \/ SubmitExisting(p) /\ Unobserved
    \/ SubmitInsert(p) /\ Unobserved
    \/ SubmitInc(p) /\ Unobserved
    \/ SubmitCount(p) /\ Unobserved
    \/ SubmitComplete(p) /\ Unobserved
    \/ SubmitNotify(p) /\ Unobserved

SpecSubmitFair == SpecSubmit /\ \A p \in Procs : WF_vars(SubmitProgress(p))

\* Concurrent votes and reactions.
NextEngage ==
    \E p \in Procs :
        \/ StartVote(p) /\ Unobserved
        \/ VoteFind(p) /\ Unobserved
        \/ VoteGroup(p) /\ Unobserved
        \/ VoteWrite(p) /\ Unobserved
        \/ VoteAfter(p) /\ Unobserved
        \/ StartReact(p) /\ Unobserved
        \/ ReactFind(p) /\ Unobserved
        \/ ReactGroup(p) /\ Unobserved
        \/ ReactWrite(p) /\ Unobserved
        \/ Finish(p) /\ Unobserved

SpecEngage == InitEngage /\ [][NextEngage]_vars

\* A single client that sends each request after the response to the one before.
Client == "p1"

\* The client proposes and selects activities while time passes.
NextSeqSelect ==
    \/ Tick /\ Unobserved
    \/ StartCreateActivity(Client) /\ Observed(Client)
    \/ CreateActivityStep(Client) /\ Observed(Client)
    \/ StartSelectDaily(Client) /\ Observed(Client)
    \/ SelectDailyGroup(Client) /\ Observed(Client)
    \/ SelectDailyToday(Client) /\ Observed(Client)
    \/ SelectDailyPending(Client) /\ Observed(Client)
    \/ SelectDailyStamp(Client) /\ Observed(Client)
    \/ SelectDailyNotify(Client) /\ Observed(Client)
    \/ Finish(Client) /\ Observed(Client)

SpecSeqSelect == InitSelect /\ [][NextSeqSelect]_vars

\* The client sends any requests, all within one UTC day.
NextSeq ==
    \/ StartJoin(Client) /\ Observed(Client)
    \/ JoinFind(Client) /\ Observed(Client)
    \/ JoinPush(Client) /\ Observed(Client)
    \/ JoinNotify(Client) /\ Observed(Client)
    \/ StartCreateActivity(Client) /\ Observed(Client)
    \/ CreateActivityStep(Client) /\ Observed(Client)
    \/ StartSelectDaily(Client) /\ Observed(Client)
    \/ SelectDailyGroup(Client) /\ Observed(Client)
    \/ SelectDailyToday(Client) /\ Observed(Client)
    \/ SelectDailyPending(Client) /\ Observed(Client)
    \/ SelectDailyStamp(Client) /\ Observed(Client)
    \/ SelectDailyNotify(Client) /\ Observed(Client)
    \/ StartSubmit(Client) /\ Observed(Client)
    \/ SubmitActivity(Client) /\ Observed(Client)
    \/ SubmitGroup(Client) /\ Observed(Client)
    \/ SubmitExisting(Client) /\ Observed(Client)
    \/ SubmitInsert(Client) /\ Observed(Client)
    \/ SubmitInc(Client) /\ Observed(Client)
    \/ SubmitCount(Client) /\ Observed(Client)
    \/ SubmitComplete(Client) /\ Observed(Client)
    \/ SubmitNotify(Client) /\ Observed(Client)
    \/ StartVote(Client) /\ Observed(Client)
    \/ VoteFind(Client) /\ Observed(Client)
    \/ VoteGroup(Client) /\ Observed(Client)
    \/ VoteWrite(Client) /\ Observed(Client)
    \/ VoteAfter(Client) /\ Observed(Client)
    \/ StartReact(Client) /\ Observed(Client)
    \/ ReactFind(Client) /\ Observed(Client)
    \/ ReactGroup(Client) /\ Observed(Client)
    \/ ReactWrite(Client) /\ Observed(Client)
    \/ StartLeaderboard(Client) /\ Observed(Client)
    \/ LeaderboardGroup(Client) /\ Observed(Client)
    \/ LeaderboardPrev(Client) /\ Observed(Client)
    \/ LeaderboardEntries(Client) /\ Observed(Client)
    \/ LeaderboardScore(Client) /\ Observed(Client)
    \/ LeaderboardInsert(Client) /\ Observed(Client)
    \/ Finish(Client) /\ Observed(Client)

SpecSeq == InitSeq /\ [][NextSeq]_vars

\* The single client asks for leaderboards only.
NextRank ==
    \/ StartLeaderboard(Client) /\ Observed(Client)
    \/ LeaderboardGroup(Client) /\ Observed(Client)
    \/ LeaderboardPrev(Client) /\ Observed(Client)
    \/ LeaderboardEntries(Client) /\ Observed(Client)
    \/ LeaderboardScore(Client) /\ Observed(Client)
    \/ LeaderboardInsert(Client) /\ Observed(Client)
    \/ Finish(Client) /\ Observed(Client)

SpecRank == InitRank /\ [][NextRank]_vars

\* The single client asks for leaderboards while users join.
NextHistory ==
    \/ StartJoin(Client) /\ Observed(Client)
    \/ JoinFind(Client) /\ Observed(Client)
    \/ JoinPush(Client) /\ Observed(Client)
    \/ JoinNotify(Client) /\ Observed(Client)
    \/ StartLeaderboard(Client) /\ Observed(Client)
    \/ LeaderboardGroup(Client) /\ Observed(Client)
    \/ LeaderboardPrev(Client) /\ Observed(Client)
    \/ LeaderboardEntries(Client) /\ Observed(Client)
    \/ LeaderboardScore(Client) /\ Observed(Client)
    \/ LeaderboardInsert(Client) /\ Observed(Client)
    \/ Finish(Client) /\ Observed(Client)

SpecHistory == InitHistory /\ [][NextHistory]_vars

\* The single client submits while admins remove members and name admins.
NextComplete ==
    \/ StartRemove(Client) /\ Observed(Client)
    \/ RemoveFind(Client) /\ Observed(Client)
    \/ RemoveMember(Client) /\ Observed(Client)
    \/ RemoveAdmin(Client) /\ Observed(Client)
    \/ StartAddAdmin(Client) /\ Observed(Client)
    \/ AddAdminFind(Client) /\ Observed(Client)
    \/ AddAdminPush(Client) /\ Observed(Client)
    \/ StartSubmit(Client) /\ Observed(Client)
    \/ SubmitActivity(Client) /\ Observed(Client)
    \/ SubmitGroup(Client) /\ Observed(Client)
    \/ SubmitExisting(Client) /\ Observed(Client)
    \/ SubmitInsert(Client) /\ Observed(Client)
    \/ SubmitInc(Client) /\ Observed(Client)
    \/ SubmitCount(Client) /\ Observed(Client)
    \/ SubmitComplete(Client) /\ Observed(Client)
    \/ SubmitNotify(Client) /\ Observed(Client)
    \/ Finish(Client) /\ Observed(Client)

SpecComplete == InitComplete /\ [][NextComplete]_vars

SpecBadges == InitBadges /\ [][NextRank]_vars

\* The end-to-end scenario: A created the group and B joined it.
InitScenario ==
    /\ groups = <<Group1>>
    /\ activities = <<>>
    /\ submissions = <<>>
    /\ users = [u \in Users |-> User]
    /\ notifications = <<Notification("A", "group")>>
    /\ leaderboard_history = <<>>
    /\ InitProcs

\* The k-th request of the scenario.
ScenarioBegin(p, k, op, first, u, g, a, s) ==
    /\ pc[p] = "idle"
    /\ nreq = k
    /\ nreq' = nreq + 1
    /\ pc' = [pc EXCEPT ![p] = first]
    /\ loc' = [loc EXCEPT ![p] = [IdleLoc EXCEPT !.op = op, !.current_user = u,
                                   !.group_id = g, !.activity_id = a,
                                   !.submission_id = s]]
    /\ UNCHANGED <<store_vars, now>>

\* A proposes X, A selects, B submits, A submits, A votes for B's
\* submission, and a member asks for the leaderboard.
ScenarioStep(p) ==
    \/ ScenarioBegin(p, 0, "create_activity", "ca_group", "A", 1, NoId, NoId)
    \/ ScenarioBegin(p, 1, "select_daily", "sd_group", "A", 1, NoId, NoId)
    \/ ScenarioBegin(p, 2, "submit", "sb_activity", "B", NoId, 1, NoId)
    \/ ScenarioBegin(p, 3, "submit", "sb_activity", "A", NoId, 1, NoId)
    \/ ScenarioBegin(p, 4, "vote", "v_find", "A", NoId, NoId, 1)
    \/ \E u \in {"A", "B"} :
           ScenarioBegin(p, 5, "leaderboard", "lb_group", u, 1, NoId, NoId)

NextScenario ==
    \/ Tick /\ Unobserved
    \/ ScenarioStep(Client) /\ Observed(Client)
    \/ CreateActivityStep(Client) /\ Observed(Client)
    \/ SelectDailyGroup(Client) /\ Observed(Client)
    \/ SelectDailyToday(Client) /\ Observed(Client)
    \/ SelectDailyPending(Client) /\ Observed(Client)
    \/ SelectDailyStamp(Client) /\ Observed(Client)
    \/ SelectDailyNotify(Client) /\ Observed(Client)
    \/ SubmitActivity(Client) /\ Observed(Client)
    \/ SubmitGroup(Client) /\ Observed(Client)
    \/ SubmitExisting(Client) /\ Observed(Client)
    \/ SubmitInsert(Client) /\ Observed(Client)
    \/ SubmitInc(Client) /\ Observed(Client)
    \/ SubmitCount(Client) /\ Observed(Client)
    \/ SubmitComplete(Client) /\ Observed(Client)
    \/ SubmitNotify(Client) /\ Observed(Client)
    \/ VoteFind(Client) /\ Observed(Client)
    \/ VoteGroup(Client) /\ Observed(Client)
    \/ VoteWrite(Client) /\ Observed(Client)
    \/ VoteAfter(Client) /\ Observed(Client)
    \/ LeaderboardGroup(Client) /\ Observed(Client)
    \/ LeaderboardPrev(Client) /\ Observed(Client)
    \/ LeaderboardEntries(Client) /\ Observed(Client)
    \/ LeaderboardScore(Client) /\ Observed(Client)
    \/ LeaderboardInsert(Client) /\ Observed(Client)
    \/ Finish(Client) /\ Observed(Client)

SpecScenario == InitScenario /\ [][NextScenario]_vars

\* One client submitting and reading the leaderboard; a submit may fail
\* after its insert.
NextLag ==
    \/ StartSubmit(Client) /\ Observed(Client)
    \/ SubmitActivity(Client) /\ Observed(Client)
    \/ SubmitGroup(Client) /\ Observed(Client)
    \/ SubmitExisting(Client) /\ Observed(Client)
    \/ SubmitInsert(Client) /\ Observed(Client)
    \/ SubmitInc(Client) /\ Observed(Client)
    \/ SubmitCount(Client) /\ Observed(Client)
    \/ SubmitComplete(Client) /\ Observed(Client)
    \/ SubmitNotify(Client) /\ Observed(Client)
    \/ SubmitFail(Client) /\ Observed(Client)
    \/ StartLeaderboard(Client) /\ Observed(Client)
    \/ LeaderboardGroup(Client) /\ Observed(Client)
    \/ LeaderboardPrev(Client) /\ Observed(Client)
    \/ LeaderboardEntries(Client) /\ Observed(Client)
    \/ LeaderboardScore(Client) /\ Observed(Client)
    \/ LeaderboardInsert(Client) /\ Observed(Client)
    \/ Finish(Client) /\ Observed(Client)

SpecLag == InitComplete /\ [][NextLag]_vars

\* A created the group; B, or B and then C, joined it (A was notified).
InitAdmins ==
    \E members \in {<<"A", "B">>, <<"A", "B", "C">>} :
        /\ groups = <<Group(members, <<"A">>)>>
        /\ activities = <<>>
        /\ submissions = <<>>
        /\ users = [u \in Users |-> User]
        /\ notifications = NotifyAll([i \in 1..(Len(members) - 1) |-> "A"], "group")
        /\ leaderboard_history = <<>>
        /\ InitProcs

\* Overlapping requests that create groups and change membership and admins.
NextAdmins ==
    \E p \in Procs :
        \/ StartCreateGroup(p) /\ Unobserved
        \/ CreateGroupInsert(p) /\ Unobserved
        \/ StartJoin(p) /\ Unobserved
        \/ JoinFind(p) /\ Unobserved
        \/ JoinPush(p) /\ Unobserved
        \/ JoinNotify(p) /\ Unobserved
        \/ StartRemove(p) /\ Unobserved
        \/ RemoveFind(p) /\ Unobserved
        \/ RemoveMember(p) /\ Unobserved
        \/ RemoveAdmin(p) /\ Unobserved
        \/ StartAddAdmin(p) /\ Unobserved
        \/ AddAdminFind(p) /\ Unobserved
        \/ AddAdminPush(p) /\ Unobserved
        \/ Finish(p) /\ Unobserved

SpecAdmins == InitAdmins /\ [][NextAdmins]_vars

\* Stores with two groups that share user A.  A created group 1 and B joined
\* it; C created group 2 and A joined it.  Each creator proposed an activity
\* and selected it today.  Then B may have submitted in group 1, A in group
\* 2 and A in group 1, in this order; the admins were notified.
SharedCandidates == <<Submission(1, "B"), Submission(2, "A"), Submission(1, "A")>>

SharedRecipients == <<"A", "C", "">>

InitTwoGroups ==
    \E present \in [1..Len(SharedCandidates) -> BOOLEAN] :
        LET idx == SelectSeq([i \in 1..Len(SharedCandidates) |-> i], LAMBDA i : present[i])
            subs == [k \in 1..Len(idx) |-> SharedCandidates[idx[k]]]
            told == SelectSeq([k \in 1..Len(idx) |-> SharedRecipients[idx[k]]],
                              LAMBDA r : r # "")
        IN  /\ groups = <<Group(<<"A", "B">>, <<"A">>), Group(<<"C", "A">>, <<"C">>)>>
            /\ activities =
                   <<[SelectedActivity(1, "A", TicksPerDay) EXCEPT
                         !.is_completed = (present[1] /\ present[3])],
                     SelectedActivity(2, "C", TicksPerDay)>>
            /\ submissions = subs
            /\ users = [u \in Users |->
                          [User EXCEPT !.completed_challenges =
                              Cardinality({k \in 1..Len(subs) : subs[k].user_id = u})]]
            /\ notifications =
                   <<Notification("A", "group"), Notification("C", "group"),
                     Notification("B", "challenge"), Notification("A", "challenge")>>
                   \o NotifyAll(told, "submission")
            /\ leaderboard_history = <<>>
            /\ InitProcs

\* One client submitting, voting, reacting and reading leaderboards in the
\* two groups.
NextTwoGroups ==
    \/ StartSubmit(Client) /\ Observed(Client)
    \/ SubmitActivity(Client) /\ Observed(Client)
    \/ SubmitGroup(Client) /\ Observed(Client)
    \/ SubmitExisting(Client) /\ Observed(Client)
    \/ SubmitInsert(Client) /\ Observed(Client)
    \/ SubmitInc(Client) /\ Observed(Client)
    \/ SubmitCount(Client) /\ Observed(Client)
    \/ SubmitComplete(Client) /\ Observed(Client)
    \/ SubmitNotify(Client) /\ Observed(Client)
    \/ StartVote(Client) /\ Observed(Client)
    \/ VoteFind(Client) /\ Observed(Client)
    \/ VoteGroup(Client) /\ Observed(Client)
    \/ VoteWrite(Client) /\ Observed(Client)
    \/ VoteAfter(Client) /\ Observed(Client)
    \/ StartReact(Client) /\ Observed(Client)
    \/ ReactFind(Client) /\ Observed(Client)
    \/ ReactGroup(Client) /\ Observed(Client)
    \/ ReactWrite(Client) /\ Observed(Client)
    \/ StartLeaderboard(Client) /\ Observed(Client)
    \/ LeaderboardGroup(Client) /\ Observed(Client)
    \/ LeaderboardPrev(Client) /\ Observed(Client)
    \/ LeaderboardEntries(Client) /\ Observed(Client)
    \/ LeaderboardScore(Client) /\ Observed(Client)
    \/ LeaderboardInsert(Client) /\ Observed(Client)
    \/ Finish(Client) /\ Observed(Client)

SpecTwoGroups == InitTwoGroups /\ [][NextTwoGroups]_vars

\* Overlapping requests that propose, select and submit.
NextLifecycle ==
    \/ Tick /\ Unobserved
    \/ \E p \in Procs :
        \/ StartCreateActivity(p) /\ Unobserved
        \/ CreateActivityStep(p) /\ Unobserved
        \/ StartSelectDaily(p) /\ Unobserved
        \/ SelectDailyGroup(p) /\ Unobserved
        \/ SelectDailyToday(p) /\ Unobserved
        \/ SelectDailyPending(p) /\ Unobserved
        \/ SelectDailyStamp(p) /\ Unobserved
        \/ SelectDailyNotify(p) /\ Unobserved
        \/ StartSubmit(p) /\ Unobserved
        \/ SubmitActivity(p) /\ Unobserved
        \/ SubmitGroup(p) /\ Unobserved
        \/ SubmitExisting(p) /\ Unobserved
        \/ SubmitInsert(p) /\ Unobserved
        \/ SubmitInc(p) /\ Unobserved
        \/ SubmitCount(p) /\ Unobserved
        \/ SubmitComplete(p) /\ Unobserved
        \/ SubmitNotify(p) /\ Unobserved
        \/ Finish(p) /\ Unobserved

SpecLifecycle == InitSelect /\ [][NextLifecycle]_vars

\* One client selecting in two groups while time passes.
NextDaily ==
    \/ Tick /\ Unobserved
    \/ StartSelectDaily(Client) /\ Observed(Client)
    \/ SelectDailyGroup(Client) /\ Observed(Client)
    \/ SelectDailyToday(Client) /\ Observed(Client)
    \/ SelectDailyPending(Client) /\ Observed(Client)
    \/ SelectDailyStamp(Client) /\ Observed(Client)
    \/ SelectDailyNotify(Client) /\ Observed(Client)
    \/ Finish(Client) /\ Observed(Client)

SpecDaily == InitDaily /\ [][NextDaily]_vars

(***************************************************************************)
(* C1: for every group and every UTC day, at most one activity of the      *)
(* group has selected_for_date inside the day's window, in every reachable *)
(* state and under any interleaving of select-daily requests.              *)
(***************************************************************************)
SelectedOn(g, d) ==
    {i \in 1..Len(activities) :
        activities[i].group_id = g /\ InWindow(activities[i].selected_for_date, d)}

C1_AtMostOneSelectedPerDay ==
    \A g \in 1..Len(groups), d \in 0..DateOf(MaxTime) : Cardinality(SelectedOn(g, d)) <= 1

(***************************************************************************)
(* C2: two select-daily requests for the same group, one after the other   *)
(* within the same UTC day, return the same activity, and the second       *)
(* changes no activity and creates no notification.                        *)
(***************************************************************************)
SecondSelectDaily ==
    /\ pc[Client] = "done"
    /\ loc[Client].op = "select_daily"
    /\ loc[Client].result = "ok"
    /\ last.req.op = "select_daily"
    /\ last.req.result = "ok"
    /\ last.req.group_id = loc[Client].group_id
    /\ DateOf(last.began) = DateOf(now)

C2_SelectDailyIdempotent ==
    SecondSelectDaily =>
        /\ loc[Client].ret = last.req.ret
        /\ activities = pre.store.activities
        /\ notifications = pre.store.notifications

\* The first of the two requests made a fresh selection while another
\* activity was still pending.
C2_Witness ==
    /\ SecondSelectDaily
    /\ last.before.activities[last.req.ret].selected_for_date = NoDate
    /\ PendingActivities(activities, loc[Client].group_id) # {}

(***************************************************************************)
(* C3: at most one submission exists for each (activity, author) pair, in  *)
(* every reachable state, also when the same user's submit requests for    *)
(* the same activity interleave.                                           *)
(***************************************************************************)
C3_OneSubmissionPerUserActivity ==
    \A i, j \in 1..Len(submissions) :
        (/\ submissions[i].activity_id = submissions[j].activity_id
         /\ submissions[i].user_id = submissions[j].user_id) => i = j

(***************************************************************************)
(* C4: submit reports the first precondition that fails, in the order      *)
(* activity exists (NotFound), caller is a member (Forbidden), activity is *)
(* selected (NotYetSelected), no earlier submission (DuplicateSubmission). *)
(***************************************************************************)
SubmitFirstFailure(st, a, u) ==
    IF a \notin 1..Len(st.activities) THEN "NotFound"
    ELSE IF u \notin SetOf(st.groups[st.activities[a].group_id].members) THEN "Forbidden"
    ELSE IF st.activities[a].selected_for_date = NoDate THEN "NotYetSelected"
    ELSE IF \E i \in 1..Len(st.submissions) :
                st.submissions[i].activity_id = a /\ st.submissions[i].user_id = u
         THEN "DuplicateSubmission"
    ELSE "ok"

SubmitDone == pc[Client] = "done" /\ loc[Client].op = "submit"

C4_SubmitPreconditionOrder ==
    SubmitDone =>
        loc[Client].result =
            SubmitFirstFailure(pre.store, loc[Client].activity_id, loc[Client].current_user)

\* A non-member submitted to a pending activity and got Forbidden.
C4_Witness ==
    /\ SubmitDone
    /\ loc[Client].result = "Forbidden"
    /\ loc[Client].activity_id \in 1..Len(activities)
    /\ activities[loc[Client].activity_id].selected_for_date = NoDate

(***************************************************************************)
(* C5: when a precondition of select-daily, submit, vote, react or the     *)
(* leaderboard fails, the request returns the error and the whole store is *)
(* as it was before the request.                                           *)
(***************************************************************************)
Errors == {"NotFound", "Forbidden", "NotYetSelected", "DuplicateSubmission",
           "NoActivitiesAvailable"}

CoreOps == {"select_daily", "submit", "vote", "react", "leaderboard"}

Failed == pc[Client] = "done" /\ loc[Client].op \in CoreOps /\ loc[Client].result \in Errors

C5_FailedPreconditionWritesNothing == Failed => Store = pre.store

\* The last of submit's preconditions failed: the caller had submitted already.
C5_Witness == Failed /\ loc[Client].result = "DuplicateSubmission"

(***************************************************************************)
(* C6: a vote toggle without interference flips exactly the caller's       *)
(* membership in the submission's votes and no other user's; two           *)
(* consecutive toggles by the same user give back the original vote set,   *)
(* and after add, remove, add the user is present exactly once.            *)
(***************************************************************************)
Flip(S, u) == IF u \in S THEN S \ {u} ELSE S \cup {u}

Count(s, x) == Cardinality({i \in 1..Len(s) : s[i] = x})

VoteDone == pc[Client] = "done" /\ loc[Client].op = "vote" /\ loc[Client].result = "ok"

SameVoteBefore ==
    /\ last.req.op = "vote"
    /\ last.req.result = "ok"
    /\ last.req.submission_id = loc[Client].submission_id
    /\ last.req.current_user = loc[Client].current_user

C6_VoteToggleFlips ==
    VoteDone =>
        LET s == loc[Client].submission_id
            u == loc[Client].current_user
            before == pre.store.submissions[s].votes
            after == submissions[s].votes
        IN  /\ SetOf(after) = Flip(SetOf(before), u)
            /\ Count(after, u) = IF u \in SetOf(before) THEN 0 ELSE 1
            /\ \A v \in Users \ {u} : Count(after, v) = Count(before, v)
            /\ SameVoteBefore => SetOf(after) = SetOf(last.before.submissions[s].votes)

\* Three requests, all toggles of B on one submission: no initial state holds
\* a vote of B, so the vote B removed in the second was added by the first.
C6_Witness ==
    /\ VoteDone
    /\ SameVoteBefore
    /\ nreq = 3
    /\ loc[Client].current_user = "B"
    /\ loc[Client].vote_added
    /\ ~last.req.vote_added
    /\ Count(submissions[loc[Client].submission_id].votes, loc[Client].current_user) = 1

(***************************************************************************)
(* C7: no user id occurs more than once in a submission's votes, in every  *)
(* reachable state, also when two vote requests of the same user on the    *)
(* same submission interleave.                                             *)
(***************************************************************************)
C7_NoDuplicateVotes ==
    \A s \in 1..Len(submissions), u \in Users : Count(submissions[s].votes, u) <= 1

(***************************************************************************)
(* C8: a reaction toggle without interference flips exactly the caller's   *)
(* membership under the given emoji, leaves every other emoji and every    *)
(* other user under the same emoji as they were, and two consecutive       *)
(* toggles of the same emoji by the same user give back the original map.  *)
(***************************************************************************)
Reacted(r, e, u) == e \in DOMAIN r /\ u \in SetOf(r[e])

ReactionSets(r) == [e \in DOMAIN r |-> SetOf(r[e])]

ReactDone == pc[Client] = "done" /\ loc[Client].op = "react" /\ loc[Client].result = "ok"

SameReactBefore ==
    /\ last.req.op = "react"
    /\ last.req.result = "ok"
    /\ last.req.submission_id = loc[Client].submission_id
    /\ last.req.current_user = loc[Client].current_user
    /\ last.req.emoji = loc[Client].emoji

C8_ReactionToggleFlips ==
    ReactDone =>
        LET s == loc[Client].submission_id
            u == loc[Client].current_user
            e == loc[Client].emoji
            before == pre.store.submissions[s].reactions
            after == submissions[s].reactions
        IN  /\ Reacted(after, e, u) = ~Reacted(before, e, u)
            /\ \A e2 \in Emojis, u2 \in Users :
                   <<e2, u2>> # <<e, u>> => (Reacted(after, e2, u2) = Reacted(before, e2, u2))
            /\ SameReactBefore =>
                   ReactionSets(after) = ReactionSets(last.before.submissions[s].reactions)

\* The second of two toggles, with another user's reaction under the same emoji.
C8_Witness ==
    /\ ReactDone
    /\ SameReactBefore
    /\ \E u2 \in Users \ {loc[Client].current_user} :
           Reacted(submissions[loc[Client].submission_id].reactions, loc[Client].emoji, u2)

(***************************************************************************)
(* C9: no stored reactions map holds an emoji key with an empty list of    *)
(* users, under any interleaving of react requests: removing the last user *)
(* of an emoji removes the key.                                            *)
(***************************************************************************)
C9_NoEmptyReactionKey ==
    \A s \in 1..Len(submissions) :
        \A e \in DOMAIN submissions[s].reactions : submissions[s].reactions[e] # <<>>

\* A react request removed the only user of an emoji the store began with.
C9_Witness ==
    \E p \in Procs :
        /\ pc[p] = "done"
        /\ loc[p].op = "react"
        /\ loc[p].result = "ok"
        /\ loc[p].emoji \in DOMAIN pre.store.submissions[loc[p].submission_id].reactions
        /\ loc[p].emoji \notin DOMAIN submissions[loc[p].submission_id].reactions

(***************************************************************************)
(* C10: when two different users toggle their vote, or their reaction, on  *)
(* the same submission concurrently, the stored votes / reactions end as   *)
(* if the two toggles had run one after the other, in one of the two       *)
(* orders, whatever the interleaving of their reads and writes.            *)
(***************************************************************************)
\* Exactly two requests ran, both of kind op, by different users on the
\* same submission, and both have returned.
BothDone(p, q, op) ==
    /\ p # q
    /\ nreq = 2
    /\ pc[p] = "done" /\ pc[q] = "done"
    /\ loc[p].op = op /\ loc[q].op = op
    /\ loc[p].result = "ok" /\ loc[q].result = "ok"
    /\ loc[p].submission_id = loc[q].submission_id
    /\ loc[p].current_user # loc[q].current_user

VoteThenVote(v0, u1, u2) ==
    LET v1 == VoteUpdate(v0, v0, u1) IN VoteUpdate(v1, v1, u2)

C10_Votes ==
    \A p, q \in Procs :
        BothDone(p, q, "vote") =>
            LET s == loc[p].submission_id
                v0 == pre.store.submissions[s].votes
            IN  submissions[s].votes \in
                    {VoteThenVote(v0, loc[p].current_user, loc[q].current_user),
                     VoteThenVote(v0, loc[q].current_user, loc[p].current_user)}

ReactThenReact(r0, e1, u1, e2, u2) == ToggleReaction(ToggleReaction(r0, e1, u1), e2, u2)

C10_Reactions ==
    \A p, q \in Procs :
        BothDone(p, q, "react") =>
            LET s == loc[p].submission_id
                r0 == pre.store.submissions[s].reactions
            IN  submissions[s].reactions \in
                    {ReactThenReact(r0, loc[p].emoji, loc[p].current_user,
                                        loc[q].emoji, loc[q].current_user),
                     ReactThenReact(r0, loc[q].emoji, loc[q].current_user,
                                        loc[p].emoji, loc[p].current_user)}

C10_ConcurrentTogglesCommute == C10_Votes /\ C10_Reactions

(***************************************************************************)
(* C11: the leaderboard gives every member of the group the sum, over the  *)
(* member's submissions on activities of the group, of 1 + the number of   *)
(* votes + 0.5 * the number of (emoji, user) reactions, and 0 to a member  *)
(* without such a submission; half points are kept.  Scores are doubled    *)
(* here: 1.0 is 2 and 3.5 is 7.                                            *)
(***************************************************************************)
ReactionPairs(r) == {pr \in Emojis \X Users : Reacted(r, pr[1], pr[2])}

ExpectedPoints2(sub) ==
    2 + 2 * Cardinality(SetOf(sub.votes)) + Cardinality(ReactionPairs(sub.reactions))

RECURSIVE ExpectedScore2Over(_, _, _, _)
ExpectedScore2Over(st, g, u, idx) ==
    IF idx = {} THEN 0
    ELSE LET i == CHOOSE k \in idx : TRUE
             sub == st.submissions[i]
             counts == /\ sub.user_id = u
                       /\ sub.activity_id \in 1..Len(st.activities)
                       /\ st.activities[sub.activity_id].group_id = g
         IN  (IF counts THEN ExpectedPoints2(sub) ELSE 0)
             + ExpectedScore2Over(st, g, u, idx \ {i})

ExpectedScore2(st, g, u) == ExpectedScore2Over(st, g, u, 1..Len(st.submissions))

LeaderboardDone ==
    pc[Client] = "done" /\ loc[Client].op = "leaderboard" /\ loc[Client].result = "ok"

EntriesOf(entries, u) == {i \in 1..Len(entries) : entries[i].user_id = u}

PositionIn(members, u) == CHOOSE k \in 1..Len(members) : members[k] = u

C12_LeaderboardRanks ==
    LeaderboardDone =>
        LET entries == loc[Client].leaderboard
            members == pre.store.groups[loc[Client].group_id].members
        IN  /\ Len(entries) = Len(members)
            /\ \A u \in SetOf(members) : Cardinality(EntriesOf(entries, u)) = 1
            /\ \A i \in 1..Len(entries) : entries[i].rank = i
            /\ \A i, j \in 1..Len(entries) :
                   i < j => /\ entries[i].score_x2 >= entries[j].score_x2
                            /\ entries[i].score_x2 = entries[j].score_x2 =>
                                   PositionIn(members, entries[i].user_id)
                                       < PositionIn(members, entries[j].user_id)

\* Three members: the last of the member list leads, the other two are tied.
C12_Witness ==
    /\ LeaderboardDone
    /\ Len(loc[Client].leaderboard) = 3
    /\ loc[Client].leaderboard[1].user_id = groups[loc[Client].group_id].members[3]
    /\ loc[Client].leaderboard[1].score_x2 > loc[Client].leaderboard[2].score_x2
    /\ loc[Client].leaderboard[2].score_x2 = loc[Client].leaderboard[3].score_x2
    /\ loc[Client].leaderboard[2].score_x2 > 0

(***************************************************************************)
(* C13: in every leaderboard entry the badges follow from the entry's      *)
(* count c of submissions in the group, cumulatively: "regular" iff        *)
(* c >= 10, "committed" iff c >= 30, "champion" iff c >= 50; so the badge  *)
(* set is {}, {regular}, {regular, committed} or all three.                *)
(***************************************************************************)
InGroupCount(st, g, u) ==
    Cardinality({i \in 1..Len(st.submissions) :
                    /\ st.submissions[i].user_id = u
                    /\ \E a \in 1..Len(st.activities) :
                           a = st.submissions[i].activity_id /\ st.activities[a].group_id = g})

C13_BadgesByCount ==
    LeaderboardDone =>
        \A i \in 1..Len(loc[Client].leaderboard) :
            LET entry == loc[Client].leaderboard[i]
                c == entry.submissions_count
                badges == SetOf(entry.badges)
            IN  /\ c = InGroupCount(pre.store, loc[Client].group_id, entry.user_id)
                /\ ("regular" \in badges) = (c >= 10)
                /\ ("committed" \in badges) = (c >= 30)
                /\ ("champion" \in badges) = (c >= 50)
                /\ badges \in {{}, {"regular"}, {"regular", "committed"},
                               {"regular", "committed", "champion"}}

\* A member with exactly 30 submissions holds regular and committed only.
C13_Witness ==
    /\ LeaderboardDone
    /\ \E i \in 1..Len(loc[Client].leaderboard) :
           /\ loc[Client].leaderboard[i].submissions_count = 30
           /\ SetOf(loc[Client].leaderboard[i].badges) = {"regular", "committed"}

(***************************************************************************)
(* C14: in a leaderboard of group G, a user's previous_rank is the rank    *)
(* the user had in the newest snapshot of G that existed before the        *)
(* computation, and 0 when G had no snapshot or the snapshot lacks the     *)
(* user; so of two consecutive computations on G, the second's             *)
(* previous_rank is the first's rank for every user in both.               *)
(***************************************************************************)
SnapshotsOf(history, g) == {i \in 1..Len(history) : history[i].group_id = g}

RankBefore(history, g, u) ==
    LET snaps == SnapshotsOf(history, g)
    IN  IF snaps = {} THEN 0
        ELSE LET newest == history[CHOOSE i \in snaps : \A j \in snaps : j <= i].entries
                 mine == {k \in 1..Len(newest) : newest[k].user_id = u}
             IN  IF mine = {} THEN 0 ELSE newest[CHOOSE k \in mine : TRUE].rank

SameLeaderboardBefore ==
    /\ last.req.op = "leaderboard"
    /\ last.req.result = "ok"
    /\ last.req.group_id = loc[Client].group_id

C14_PreviousRank ==
    LeaderboardDone =>
        LET g == loc[Client].group_id
            entries == loc[Client].leaderboard
            first == last.req.leaderboard
        IN  /\ \A i \in 1..Len(entries) :
                   entries[i].previous_rank =
                       RankBefore(pre.store.leaderboard_history, g, entries[i].user_id)
            /\ SameLeaderboardBefore =>
                   \A i \in 1..Len(entries), k \in 1..Len(first) :
                       entries[i].user_id = first[k].user_id =>
                           entries[i].previous_rank = first[k].rank

\* The third request: G had two snapshots with different ranks for A, and
\* the leaderboard took A's rank from the newer one.
C14_Witness ==
    /\ LeaderboardDone
    /\ SameLeaderboardBefore
    /\ Len(pre.store.leaderboard_history) = 2
    /\ \E i \in 1..Len(loc[Client].leaderboard) :
           /\ loc[Client].leaderboard[i].user_id = "A"
           /\ loc[Client].leaderboard[i].previous_rank = 2
           /\ pre.store.leaderboard_history[1].entries[1].user_id = "A"

(***************************************************************************)
(* C15: the leaderboard history only grows and stored snapshots never      *)
(* change: every step keeps the snapshots there were, a successful         *)
(* leaderboard request appends exactly one snapshot of its group whose     *)
(* entries are the returned list, and no other request appends any.        *)
(***************************************************************************)
IsPrefix(s, t) == Len(s) <= Len(t) /\ \A i \in 1..Len(s) : s[i] = t[i]

AppendedOwnSnapshot ==
    /\ Len(leaderboard_history) = Len(pre.store.leaderboard_history) + 1
    /\ IsPrefix(pre.store.leaderboard_history, leaderboard_history)
    /\ leaderboard_history[Len(leaderboard_history)].group_id = loc[Client].group_id
    /\ leaderboard_history[Len(leaderboard_history)].entries = loc[Client].leaderboard

C15_HistoryAppendOnly ==
    /\ [][IsPrefix(leaderboard_history, leaderboard_history')]_vars
    /\ [](pc[Client] = "done" =>
            IF loc[Client].op = "leaderboard" /\ loc[Client].result = "ok"
            THEN AppendedOwnSnapshot
            ELSE leaderboard_history = pre.store.leaderboard_history)

\* A second leaderboard of the group was stored next to the first.
C15_Witness ==
    /\ LeaderboardDone
    /\ Len(leaderboard_history) = 2
    /\ leaderboard_history[1].group_id = leaderboard_history[2].group_id
    /\ leaderboard_history[1].entries # leaderboard_history[2].entries

(***************************************************************************)
(* C16: an activity's life is one-way under any interleaving: it is        *)
(* created without selected_for_date; once selected_for_date is set no     *)
(* step changes or clears it; once is_completed is true no step makes it   *)
(* false.                                                                  *)
(***************************************************************************)
ActivityStepsForward ==
    /\ Len(activities') >= Len(activities)
    /\ \A a \in 1..Len(activities) :
           /\ activities[a].selected_for_date # NoDate =>
                  activities'[a].selected_for_date = activities[a].selected_for_date
           /\ activities[a].is_completed => activities'[a].is_completed
    /\ \A a \in (Len(activities) + 1)..Len(activities') :
           activities'[a].selected_for_date = NoDate /\ ~activities'[a].is_completed

C16_ActivityLifecycle == [][ActivityStepsForward]_vars

(***************************************************************************)
(* C17: a successful submit counts the activity's submissions and sets     *)
(* is_completed exactly when the count has reached the group's number of   *)
(* members, that is when it is greater than or equal to it; with fewer     *)
(* submissions than members the activity stays not completed.              *)
(***************************************************************************)
SubmitOk == SubmitDone /\ loc[Client].result = "ok"

CountOn(a) == Cardinality({i \in 1..Len(submissions) : submissions[i].activity_id = a})

MembersOf(a) == Len(groups[activities[a].group_id].members)

C17_CompletedWhenCountReached ==
    SubmitOk =>
        LET a == loc[Client].activity_id
        IN  activities[a].is_completed =
                (pre.store.activities[a].is_completed \/ CountOn(a) >= MembersOf(a))

\* As stated: is_completed is set exactly when the count equals the number
\* of members.
C17_CompletedWhenCountEquals ==
    SubmitOk =>
        LET a == loc[Client].activity_id
        IN  activities[a].is_completed =
                (pre.store.activities[a].is_completed \/ CountOn(a) = MembersOf(a))

\* A member was removed after submitting: the next submission makes the count
\* exceed the number of members, and completes the activity.
C17_Witness ==
    /\ SubmitOk
    /\ CountOn(loc[Client].activity_id) > MembersOf(loc[Client].activity_id)
    /\ activities[loc[Client].activity_id].is_completed
    /\ ~pre.store.activities[loc[Client].activity_id].is_completed

(***************************************************************************)
(* C18: a successful submit stores exactly one new submission, by the      *)
(* caller on the given activity, with no votes and no reactions, and adds  *)
(* exactly 1 to the caller's completed_challenges; so each user's          *)
(* completed_challenges is the number of submissions the user authored,    *)
(* a submit that has inserted and not yet incremented counting as one      *)
(* increment to come.                                                      *)
(***************************************************************************)
Authored(u) == Cardinality({i \in 1..Len(submissions) : submissions[i].user_id = u})

IncrementsToCome(u) ==
    Cardinality({q \in Procs : pc[q] = "sb_inc" /\ loc[q].current_user = u})

SubmitEffect ==
    LET u == loc[Client].current_user
        a == loc[Client].activity_id
    IN  /\ submissions = Append(pre.store.submissions,
                                [activity_id |-> a, user_id |-> u, votes |-> <<>>,
                                 reactions |-> [e \in {} |-> <<>>]])
        /\ users[u].completed_challenges = pre.store.users[u].completed_challenges + 1
        /\ users[u].total_points = pre.store.users[u].total_points
        /\ \A v \in Users \ {u} : users[v] = pre.store.users[v]

VotedFor == pre.store.submissions[loc[Client].submission_id].user_id

VoteWasAdded ==
    loc[Client].current_user \notin
        SetOf(pre.store.submissions[loc[Client].submission_id].votes)

AuthorAwarded ==
    users = [pre.store.users EXCEPT ![VotedFor].total_points = @ + 1]

AuthorNotified ==
    notifications = Append(pre.store.notifications, Notification(VotedFor, "vote"))

C19_VoteAwardsOtherAuthor ==
    VoteDone =>
        IF VoteWasAdded /\ VotedFor # loc[Client].current_user
        THEN AuthorAwarded /\ AuthorNotified
        ELSE users = pre.store.users /\ notifications = pre.store.notifications

\* As stated: every added vote awards the author; only the notification is
\* skipped when the author is the caller.
C19_VoteAwardsAuthor ==
    VoteDone =>
        IF VoteWasAdded
        THEN /\ AuthorAwarded
             /\ IF VotedFor # loc[Client].current_user
                THEN AuthorNotified
                ELSE notifications = pre.store.notifications
        ELSE notifications = pre.store.notifications

\* The author added a vote to the author's own submission.
C19_Witness ==
    /\ VoteDone
    /\ VoteWasAdded
    /\ VotedFor = loc[Client].current_user
    /\ loc[Client].current_user \in SetOf(submissions[loc[Client].submission_id].votes)

(***************************************************************************)
(* C20: a reaction toggle changes nothing but the reactions map of the     *)
(* submission it targets: users' counters, the submission's votes and     *)
(* other fields, notifications, every other submission, activities,       *)
(* groups and leaderboard history are as they were before the request.    *)
(***************************************************************************)
ReactFinished == pc[Client] = "done" /\ loc[Client].op = "react"

OnlyReactionsDiffer(before, after) ==
    [after EXCEPT !.reactions = before.reactions] = before

C20_ReactionChangesOnlyReactions ==
    ReactFinished =>
        /\ users = pre.store.users
        /\ notifications = pre.store.notifications
        /\ activities = pre.store.activities
        /\ groups = pre.store.groups
        /\ leaderboard_history = pre.store.leaderboard_history
        /\ Len(submissions) = Len(pre.store.submissions)
        /\ \A i \in 1..Len(submissions) :
               IF ReactDone /\ i = loc[Client].submission_id
               THEN OnlyReactionsDiffer(pre.store.submissions[i], submissions[i])
               ELSE submissions[i] = pre.store.submissions[i]

\* A reaction changed the map of a submission that holds a vote, next to
\* another submission.
C20_Witness ==
    /\ ReactDone
    /\ submissions[loc[Client].submission_id].reactions #
           pre.store.submissions[loc[Client].submission_id].reactions
    /\ submissions[loc[Client].submission_id].votes # <<>>
    /\ Len(submissions) > 1

(***************************************************************************)
(* C21: a select-daily request that makes a fresh selection in a group of  *)
(* N members changes exactly one activity and creates exactly N-1          *)
(* notifications: one for each member other than the caller, none for the  *)
(* caller.                                                                 *)
(***************************************************************************)
SelectDone ==
    pc[Client] = "done" /\ loc[Client].op = "select_daily" /\ loc[Client].result = "ok"

\* The returned activity was pending before the request.
FreshSelect ==
    SelectDone /\ pre.store.activities[loc[Client].ret].selected_for_date = NoDate

Changed(before, after) == {i \in 1..Len(after) : i > Len(before) \/ after[i] # before[i]}

NewNotifications ==
    SubSeq(notifications, Len(pre.store.notifications) + 1, Len(notifications))

NotifiedTimes(u) ==
    Cardinality({i \in 1..Len(NewNotifications) : NewNotifications[i].user_id = u})

C21_FreshSelectEffects ==
    FreshSelect =>
        LET members == groups[loc[Client].group_id].members
        IN  /\ Len(activities) = Len(pre.store.activities)
            /\ Changed(pre.store.activities, activities) = {loc[Client].ret}
            /\ IsPrefix(pre.store.notifications, notifications)
            /\ Len(NewNotifications) = Len(members) - 1
            /\ \A u \in Users :
                   NotifiedTimes(u) =
                       IF InSeq(u, members) /\ u # loc[Client].current_user THEN 1 ELSE 0
            /\ \A i \in 1..Len(NewNotifications) : NewNotifications[i].type = "challenge"

\* A member of a group of three made a fresh selection.
C21_Witness ==
    /\ FreshSelect
    /\ Len(groups[loc[Client].group_id].members) = 3
    /\ Len(NewNotifications) = 2

(***************************************************************************)
(* C22: a fresh select-daily for group G returns an activity of G that was *)
(* pending just before the request; afterwards its selected_for_date is    *)
(* the time at which the request stamped it, a time during the request     *)
(* and inside the UTC day window of that time; no activity of another      *)
(* group is selected or changed.                                           *)
(***************************************************************************)
StampOf(a) == activities[a].selected_for_date

SelectFinished == pc[Client] = "done" /\ loc[Client].op = "select_daily"

NothingToSelect(st, g, u, t) ==
    /\ g \in 1..Len(st.groups)
    /\ InSeq(u, st.groups[g].members)
    /\ \A i \in 1..Len(st.activities) :
           st.activities[i].group_id = g =>
               /\ st.activities[i].selected_for_date # NoDate
               /\ DateOf(st.activities[i].selected_for_date) # DateOf(t)

C23_NoActivitiesAvailable ==
    (/\ SelectFinished
     /\ NothingToSelect(pre.store, loc[Client].group_id, loc[Client].current_user, pre.at))
        => /\ loc[Client].result = "NoActivitiesAvailable"
           /\ Store = pre.store

\* The group's only activity was selected on an earlier day.
C23_Witness ==
    /\ SelectFinished
    /\ NothingToSelect(pre.store, loc[Client].group_id, loc[Client].current_user, pre.at)
    /\ \E i \in 1..Len(activities) :
           /\ activities[i].group_id = loc[Client].group_id
           /\ activities[i].selected_for_date # NoDate
           /\ DateOf(activities[i].selected_for_date) < DateOf(pre.at)

(***************************************************************************)
(* C24: a successful submit creates one notification for each admin of    *)
(* the group other than the submitter, and none for the submitter or for   *)
(* members that are not admins.                                            *)
(***************************************************************************)
SubmitGroupOf == groups[activities[loc[Client].activity_id].group_id]

C24_SubmitNotifiesAdmins ==
    SubmitOk =>
        /\ IsPrefix(pre.store.notifications, notifications)
        /\ \A u \in Users :
               NotifiedTimes(u) =
                   IF InSeq(u, SubmitGroupOf.admins) /\ u # loc[Client].current_user
                   THEN 1 ELSE 0
        /\ \A i \in 1..Len(NewNotifications) : NewNotifications[i].type = "submission"

\* An admin was notified while another member, not an admin and not the
\* submitter, was not.
C24_Witness ==
    /\ SubmitOk
    /\ \E u \in Users : u # loc[Client].current_user /\ NotifiedTimes(u) = 1
    /\ \E u \in Users :
           /\ u # loc[Client].current_user
           /\ InSeq(u, SubmitGroupOf.members)
           /\ ~InSeq(u, SubmitGroupOf.admins)

(***************************************************************************)
(* C25: the end-to-end scenario.  In group G with members [A, B] and admin *)
(* A: A proposes X; A selects, X is selected for today and B gets exactly  *)
(* one notification; B submits, is_completed stays false; A submits,       *)
(* is_completed becomes true; A votes for B's submission, its votes are    *)
(* {A} and B's total_points grows by 1; the leaderboard has B with score 2 *)
(* and rank 1 and A with score 1 and rank 2.                               *)
(***************************************************************************)
Answered(k) == pc[Client] = "done" /\ nreq = k /\ loc[Client].result = "ok"

ScenarioRan(k) == pc[Client] = "done" /\ nreq = k

ScenarioEntry(i) ==
    [user_id |-> loc[Client].leaderboard[i].user_id,
     score_x2 |-> loc[Client].leaderboard[i].score_x2,
     rank |-> loc[Client].leaderboard[i].rank]

C25_Scenario ==
    /\ \A k \in 1..6 : ScenarioRan(k) => loc[Client].result = "ok"
    /\ Answered(2) =>
           /\ loc[Client].ret = 1
           /\ activities[1].selected_for_date >= pre.at
           /\ activities[1].selected_for_date <= now
           /\ NewNotifications = <<Notification("B", "challenge")>>
    /\ Answered(3) =>
           /\ submissions = <<Submission(1, "B")>>
           /\ ~activities[1].is_completed
    /\ Answered(4) =>
           /\ ~pre.store.activities[1].is_completed
           /\ activities[1].is_completed
    /\ Answered(5) =>
           /\ SetOf(submissions[1].votes) = {"A"}
           /\ Len(submissions[1].votes) = 1
           /\ users["B"].total_points = pre.store.users["B"].total_points + 1
    /\ Answered(6) =>
           /\ Len(loc[Client].leaderboard) = 2
           /\ ScenarioEntry(1) = [user_id |-> "B", score_x2 |-> 4, rank |-> 1]
           /\ ScenarioEntry(2) = [user_id |-> "A", score_x2 |-> 2, rank |-> 2]

\* The scenario ran to its end, with time passing during the last request.
C25_Witness ==
    /\ Answered(6)
    /\ loc[Client].op = "leaderboard"
    /\ Len(submissions) = 2
    /\ Len(leaderboard_history) = 1
    /\ now > pre.at

(***************************************************************************)
(* C26: two leaderboard computations for the same group, on stores that    *)
(* agree on the group's member list, its activities and their submissions  *)
(* with votes and reactions, return the same sequence of (user, score,     *)
(* rank, badges, submissions_count), whichever member asks and whatever    *)
(* snapshots exist; only previous_rank may differ.                         *)
(***************************************************************************)
GroupActivities(st, g) == {i \in 1..Len(st.activities) : st.activities[i].group_id = g}

GroupSubmissions(st, g) ==
    SelectSeq(st.submissions, LAMBDA sub : sub.activity_id \in GroupActivities(st, g))

SameScoringData(s1, s2, g) ==
    /\ s1.groups[g].members = s2.groups[g].members
    /\ GroupActivities(s1, g) = GroupActivities(s2, g)
    /\ \A i \in GroupActivities(s1, g) : s1.activities[i] = s2.activities[i]
    /\ GroupSubmissions(s1, g) = GroupSubmissions(s2, g)

Standing(entries) ==
    [i \in 1..Len(entries) |->
        [user_id |-> entries[i].user_id, score_x2 |-> entries[i].score_x2,
         rank |-> entries[i].rank, badges |-> entries[i].badges,
         submissions_count |-> entries[i].submissions_count]]

TwoLeaderboards ==
    /\ LeaderboardDone
    /\ last.req.op = "leaderboard"
    /\ last.req.result = "ok"
    /\ last.req.group_id = loc[Client].group_id
    /\ SameScoringData(pre.store, last.before, loc[Client].group_id)

EveryMemberSubmitted(a) ==
    /\ a \in 1..Len(activities)
    /\ \A m \in SetOf(groups[activities[a].group_id].members) :
           ExistingSubmission(submissions, a, m)

SubmitSettling(a) ==
    \E p \in Procs : /\ loc[p].op = "submit"
                     /\ loc[p].activity_id = a
                     /\ pc[p] \in {"sb_inc", "sb_count", "sb_complete"}

Completed(a) == a \in 1..Len(activities) /\ activities[a].is_completed

C27_CompletionReached ==
    \A a \in 1..MaxActs :
        /\ EveryMemberSubmitted(a) ~> Completed(a)
        /\ [](EveryMemberSubmitted(a) /\ ~SubmitSettling(a) => Completed(a))

\* Two overlapping requests of the two members have both been answered.
C27_Witness ==
    /\ Completed(1)
    /\ \A p \in Procs : pc[p] = "done" /\ loc[p].op = "submit" /\ loc[p].result = "ok"
    /\ loc["p1"].current_user # loc["p2"].current_user

(***************************************************************************)
(* C28: when a submit has inserted its submission and a later step of it   *)
(* fails, nothing is rolled back: the submission stays, it blocks another  *)
(* submission by the same user on the activity, it counts in the           *)
(* leaderboard, and is_completed is set by the next successful submit on   *)
(* the activity whose count reaches the member count.                      *)
(***************************************************************************)
SubmitFailed == SubmitDone /\ loc[Client].result = "ServerError"

AfterFailedSubmit == last.req.op = "submit" /\ last.req.result = "ServerError"

SubmissionOf(st, a, u) ==
    {i \in 1..Len(st.submissions) :
        st.submissions[i].activity_id = a /\ st.submissions[i].user_id = u}

C28_FailedSubmitStays ==
    /\ SubmitFailed =>
           /\ submissions = Append(pre.store.submissions,
                                   Submission(loc[Client].activity_id, loc[Client].current_user))
           /\ activities = pre.store.activities
           /\ notifications = pre.store.notifications
    /\ (AfterFailedSubmit /\ pc[Client] # "idle") =>
           Cardinality(SubmissionOf(pre.store, last.req.activity_id, last.req.current_user)) = 1
    /\ (/\ AfterFailedSubmit
        /\ SubmitDone
        /\ loc[Client].activity_id = last.req.activity_id
        /\ loc[Client].current_user = last.req.current_user)
           => /\ loc[Client].result = "DuplicateSubmission"
              /\ Store = pre.store
    /\ (AfterFailedSubmit /\ LeaderboardDone) =>
           \A i \in EntriesOf(loc[Client].leaderboard, last.req.current_user) :
               /\ loc[Client].leaderboard[i].score_x2 =
                      ExpectedScore2(pre.store, loc[Client].group_id, last.req.current_user)
               /\ loc[Client].leaderboard[i].score_x2 >= 2
               /\ loc[Client].leaderboard[i].submissions_count >= 1
    /\ (/\ AfterFailedSubmit
        /\ SubmitOk
        /\ CountOn(loc[Client].activity_id) >= MembersOf(loc[Client].activity_id))
           => activities[loc[Client].activity_id].is_completed

\* After a submit that failed behind its insert, the next submit, by
\* another member, succeeded and completed the activity.
C28_Witness ==
    /\ AfterFailedSubmit
    /\ SubmitOk
    /\ loc[Client].activity_id = last.req.activity_id
    /\ ~pre.store.activities[loc[Client].activity_id].is_completed
    /\ activities[loc[Client].activity_id].is_completed

(***************************************************************************)
(* C29: in every reachable state the number of submissions on an activity  *)
(* is at most the current number of members of the activity's group, also  *)
(* after members have joined or have been removed.                         *)
(***************************************************************************)
C29_SubmissionsBoundedByMembers ==
    \A a \in 1..Len(activities) : CountOn(a) <= MembersOf(a)

(***************************************************************************)
(* C30: in every reachable state, under any interleaving of create-group,  *)
(* join, remove-member and add-admin requests, every admin of a group is   *)
(* a member of it, also between the two updates of remove-member and when  *)
(* add-admin overlaps the removal of the same user.                        *)
(***************************************************************************)
C30_AdminsAreMembers ==
    \A g \in 1..Len(groups) : SetOf(groups[g].admins) \subseteq SetOf(groups[g].members)

(***************************************************************************)
(* C31: in every reachable state every group has at least one admin, under *)
(* any interleaving of remove-member requests; the removal of the last     *)
(* admin is rejected and changes nothing.                                  *)
(***************************************************************************)
C31_AdminsNonEmpty == \A g \in 1..Len(groups) : groups[g].admins # <<>>

(***************************************************************************)
(* C32: in every reachable state, under any interleaving of join requests, *)
(* no user id occurs twice in a group's member list and the list is no     *)
(* longer than max_members.                                                *)
(***************************************************************************)
C32_MembersUniqueAndBounded ==
    \A g \in 1..Len(groups) :
        /\ \A i, j \in 1..Len(groups[g].members) :
               groups[g].members[i] = groups[g].members[j] => i = j
        /\ Len(groups[g].members) <= groups[g].max_members

(***************************************************************************)
(* C33: a group's leaderboard counts only submissions on the group's own   *)
(* activities: submissions, votes and reactions made in another group that *)
(* shares a user change no count, score, badge or rank of the group.       *)
(***************************************************************************)
GroupOfSubmission(s) == activities[submissions[s].activity_id].group_id

\* The request answered before the running one succeeded in a group other
\* than g.
ElsewhereBefore(g) ==
    /\ last.req.result = "ok"
    /\ \/ last.req.op \in {"vote", "react"} /\ GroupOfSubmission(last.req.submission_id) # g
       \/ last.req.op = "submit" /\ activities[last.req.activity_id].group_id # g

\* The third request is a leaderboard of the group of the first, and the
\* second succeeded in another group.
LeaderboardAgain ==
    /\ LeaderboardDone
    /\ nreq = 3
    /\ ElsewhereBefore(loc[Client].group_id)
    /\ Len(last.before.leaderboard_history) = 1
    /\ last.before.leaderboard_history[1].group_id = loc[Client].group_id

C33_LeaderboardPerGroup ==
    /\ LeaderboardDone =>
           \A i \in 1..Len(loc[Client].leaderboard) :
               LET entry == loc[Client].leaderboard[i]
               IN  /\ entry.score_x2 =
                          ExpectedScore2(pre.store, loc[Client].group_id, entry.user_id)
                   /\ entry.submissions_count =
                          InGroupCount(pre.store, loc[Client].group_id, entry.user_id)
    /\ LeaderboardAgain =>
           Standing(loc[Client].leaderboard) =
               Standing(last.before.leaderboard_history[1].entries)

\* Between two leaderboards of group 1, A's submission in group 2 received
\* a vote; A's entry in group 1 shows A's submission in group 1 only.
C33_Witness ==
    /\ LeaderboardAgain
    /\ loc[Client].group_id = 1
    /\ last.req.op = "vote"
    /\ submissions[last.req.submission_id].user_id = "A"
    /\ submissions[last.req.submission_id].votes # <<>>
    /\ \E i \in 1..Len(loc[Client].leaderboard) :
           /\ loc[Client].leaderboard[i].user_id = "A"
           /\ loc[Client].leaderboard[i].score_x2 = 2
           /\ loc[Client].leaderboard[i].submissions_count = 1

(***************************************************************************)
(* C34: in every reachable state every submission refers to an existing    *)
(* activity that carries a selected_for_date, and every completed activity *)
(* carries a selected_for_date and has at least one submission; a pending  *)
(* activity is never completed and has no submission.                      *)
(***************************************************************************)
C34_SubmissionsOnSelectedOnly ==
    /\ \A i \in 1..Len(submissions) :
           /\ submissions[i].activity_id \in 1..Len(activities)
           /\ activities[submissions[i].activity_id].selected_for_date # NoDate
    /\ \A a \in 1..Len(activities) :
           activities[a].is_completed =>
               /\ activities[a].selected_for_date # NoDate
               /\ CountOn(a) >= 1

\* One activity is completed with a submission of each member while another
\* is pending, without submissions.
C34_Witness ==
    \E a, b \in 1..Len(activities) :
        /\ activities[a].is_completed
        /\ CountOn(a) = Len(groups[activities[a].group_id].members)
        /\ activities[b].selected_for_date = NoDate
        /\ CountOn(b) = 0

(***************************************************************************)
(* C35: when the author votes for the author's own submission, the author  *)
(* is added to votes and receives no lifetime point and no notification,   *)
(* while the vote adds 1 to the author's score in the leaderboard.         *)
(***************************************************************************)
SelfVoteAdded(req) ==
    /\ req.op = "vote"
    /\ req.result = "ok"
    /\ req.vote_added
    /\ req.submission.user_id = req.current_user

\* A leaderboard of the submission's group right after the self-vote.
LeaderboardAfterSelfVote ==
    /\ LeaderboardDone
    /\ SelfVoteAdded(last.req)
    /\ GroupOfSubmission(last.req.submission_id) = loc[Client].group_id

C35_SelfVoteScoresWithoutPoint ==
    /\ (pc[Client] = "done" /\ SelfVoteAdded(loc[Client])) =>
           /\ InSeq(loc[Client].current_user, submissions[loc[Client].submission_id].votes)
           /\ ~InSeq(loc[Client].current_user,
                     pre.store.submissions[loc[Client].submission_id].votes)
           /\ users = pre.store.users
           /\ notifications = pre.store.notifications
    /\ LeaderboardAfterSelfVote =>
           \A i \in EntriesOf(loc[Client].leaderboard, last.req.current_user) :
               /\ loc[Client].leaderboard[i].score_x2 =
                      ExpectedScore2(last.before, loc[Client].group_id,
                                     last.req.current_user) + 2
               /\ users[last.req.current_user].total_points =
                      last.before.users[last.req.current_user].total_points

\* The author's only vote is the author's own: score 2, no lifetime point.
C35_Witness ==
    /\ LeaderboardAfterSelfVote
    /\ \E i \in EntriesOf(loc[Client].leaderboard, last.req.current_user) :
           loc[Client].leaderboard[i].score_x2 = 4
    /\ users[last.req.current_user].total_points = 0
    /\ submissions[last.req.submission_id].votes = <<last.req.current_user>>

(***************************************************************************)
(* C36: a user's total_points never decreases; removing a vote does not    *)
(* take back the point given when it was added, so a voter's remove and    *)
(* add again on another user's submission leaves the same votes and the    *)
(* author one point richer each time; and total_points, together with the  *)
(* points of votes already written whose award is still to come, is at     *)
(* least the number of votes held on the user's submissions from others.   *)
(***************************************************************************)
PointsKept == \A u \in Users : users'[u].total_points >= users[u].total_points

VotesFromOthers(u) ==
    Cardinality({ik \in (1..Len(submissions)) \X (1..Cardinality(Users) * Cardinality(Procs)) :
                    /\ submissions[ik[1]].user_id = u
                    /\ ik[2] <= Len(submissions[ik[1]].votes)
                    /\ submissions[ik[1]].votes[ik[2]] # u})

AwardsToCome(u) ==
    Cardinality({p \in Procs : /\ pc[p] = "v_after"
                               /\ loc[p].vote_added
                               /\ loc[p].submission.user_id = u
                               /\ loc[p].current_user # u})

PointsCoverWrittenVotes ==
    \A u \in Users : users[u].total_points + AwardsToCome(u) >= VotesFromOthers(u)

\* The same voter removed a vote from another user's submission and then
\* added it again.
RemovedThenAdded ==
    /\ VoteDone
    /\ VoteWasAdded
    /\ VotedFor # loc[Client].current_user
    /\ last.req.op = "vote"
    /\ last.req.result = "ok"
    /\ ~last.req.vote_added
    /\ last.req.submission_id = loc[Client].submission_id
    /\ last.req.current_user = loc[Client].current_user

VotedTwiceForOne ==
    RemovedThenAdded =>
        /\ SetOf(submissions[loc[Client].submission_id].votes) =
               SetOf(last.before.submissions[loc[Client].submission_id].votes)
        /\ users[VotedFor].total_points = last.before.users[VotedFor].total_points + 1

SameButHistory(st) ==
    /\ groups = st.groups
    /\ activities = st.activities
    /\ submissions = st.submissions
    /\ users = st.users
    /\ notifications = st.notifications

LeaderboardBefore ==
    last.req.op = "leaderboard" /\ last.req.result = "ok"

C37_LeaderboardWritesOneSnapshot ==
    LeaderboardDone =>
        /\ SameButHistory(pre.store)
        /\ leaderboard_history =
               Append(pre.store.leaderboard_history,
                      leaderboard_history[Len(leaderboard_history)])
        /\ LeaderboardBefore =>
               /\ SameButHistory(last.before)
               /\ Len(leaderboard_history) = Len(last.before.leaderboard_history) + 2
               /\ IsPrefix(last.before.leaderboard_history, leaderboard_history)

\* Three leaderboards of a group in a row on a store with a submission: three
\* snapshots, the last two with the same entries.
C37_Witness ==
    /\ LeaderboardDone
    /\ LeaderboardBefore
    /\ submissions # <<>>
    /\ Len(leaderboard_history) = 3
    /\ last.before.leaderboard_history # <<>>
    /\ leaderboard_history[3].group_id = leaderboard_history[2].group_id
    /\ leaderboard_history[3].entries = leaderboard_history[2].entries

(***************************************************************************)
(* Former members.  A created the group, B and C joined; A proposed and    *)
(* selected an activity; B and C submitted; C may have voted for B's       *)
(* submission and reacted to it, B may have voted for C's.  Then members   *)
(* are removed and leaderboards asked for.                                 *)
(***************************************************************************)
InitFormer ==
    \E cvoted \in BOOLEAN, creacted \in BOOLEAN, bvoted \in BOOLEAN :
        /\ groups = <<Group(<<"A", "B", "C">>, <<"A">>)>>
        /\ activities = <<SelectedActivity(1, "A", TicksPerDay)>>
        /\ submissions =
               <<[Submission(1, "B") EXCEPT
                     !.votes = IF cvoted THEN <<"C">> ELSE <<>>,
                     !.reactions = IF creacted THEN [e \in {"fire"} |-> <<"C">>]
                                   ELSE EmptyReactions],
                 [Submission(1, "C") EXCEPT
                     !.votes = IF bvoted THEN <<"B">> ELSE <<>>]>>
        /\ users = [u \in Users |->
                      IF u = "B" THEN [total_points |-> IF cvoted THEN 1 ELSE 0,
                                       completed_challenges |-> 1]
                      ELSE IF u = "C" THEN [total_points |-> IF bvoted THEN 1 ELSE 0,
                                            completed_challenges |-> 1]
                      ELSE User]
        /\ notifications =
               <<Notification("A", "group"), Notification("A", "group"),
                 Notification("B", "challenge"), Notification("C", "challenge"),
                 Notification("A", "submission"), Notification("A", "submission")>>
               \o (IF cvoted THEN <<Notification("B", "vote")>> ELSE <<>>)
               \o (IF bvoted THEN <<Notification("C", "vote")>> ELSE <<>>)
        /\ leaderboard_history = <<>>
        /\ InitProcs

NextFormer ==
    \/ StartRemove(Client) /\ Observed(Client)
    \/ RemoveFind(Client) /\ Observed(Client)
    \/ RemoveMember(Client) /\ Observed(Client)
    \/ RemoveAdmin(Client) /\ Observed(Client)
    \/ StartAddAdmin(Client) /\ Observed(Client)
    \/ AddAdminFind(Client) /\ Observed(Client)
    \/ AddAdminPush(Client) /\ Observed(Client)
    \/ StartLeaderboard(Client) /\ Observed(Client)
    \/ LeaderboardGroup(Client) /\ Observed(Client)
    \/ LeaderboardPrev(Client) /\ Observed(Client)
    \/ LeaderboardEntries(Client) /\ Observed(Client)
    \/ LeaderboardScore(Client) /\ Observed(Client)
    \/ LeaderboardInsert(Client) /\ Observed(Client)
    \/ Finish(Client) /\ Observed(Client)

SpecFormer == InitFormer /\ [][NextFormer]_vars

(***************************************************************************)
(* C38: every entry of a returned leaderboard belongs to a member of the   *)
(* group; the submissions of users who are no longer members add to no     *)
(* entry's score or count; the votes and reactions that former members     *)
(* cast on a member's submission still count in that member's score.       *)
(***************************************************************************)
FormerAuthors(g) ==
    {u \in Users : /\ ~InSeq(u, groups[g].members)
                   /\ InGroupCount(Store, g, u) > 0}

\* twice the points that users outside the group gave to u's submissions
GivenByFormer2(g, u) ==
    LET own == {i \in 1..Len(submissions) :
                   /\ submissions[i].user_id = u
                   /\ submissions[i].activity_id \in GroupActivities(Store, g)}
        outside == Users \ SetOf(groups[g].members)
    IN  2 * Cardinality({iv \in own \X outside : InSeq(iv[2], submissions[iv[1]].votes)})
        + Cardinality({ive \in own \X outside \X Emojis :
                          /\ ive[3] \in DOMAIN submissions[ive[1]].reactions
                          /\ InSeq(ive[2], submissions[ive[1]].reactions[ive[3]])})

RECURSIVE SumOver(_, _)
SumOver(f, idx) ==
    IF idx = {} THEN 0
    ELSE LET i == CHOOSE k \in idx : TRUE IN f[i] + SumOver(f, idx \ {i})

C38_LeaderboardOfMembersOnly ==
    LeaderboardDone =>
        LET g == loc[Client].group_id
            entries == loc[Client].leaderboard
            members == SetOf(groups[g].members)
        IN  /\ \A i \in 1..Len(entries) : entries[i].user_id \in members
            /\ \A u \in FormerAuthors(g) : EntriesOf(entries, u) = {}
            /\ \A i \in 1..Len(entries) :
                   /\ entries[i].score_x2 = ExpectedScore2(Store, g, entries[i].user_id)
                   /\ entries[i].score_x2 >=
                          2 * InGroupCount(Store, g, entries[i].user_id)
                          + GivenByFormer2(g, entries[i].user_id)
                   /\ entries[i].submissions_count =
                          InGroupCount(Store, g, entries[i].user_id)
            /\ SumOver([i \in 1..Len(entries) |-> entries[i].submissions_count],
                       1..Len(entries))
                   = Cardinality({i \in 1..Len(submissions) :
                                     /\ submissions[i].user_id \in members
                                     /\ submissions[i].activity_id
                                            \in GroupActivities(Store, g)})

\* C, who submitted, voted for B's submission and reacted to it, was removed:
\* the leaderboard has no entry for C, and B's entry has 1 + 1 + 0.5 points.
C38_Witness ==
    /\ LeaderboardDone
    /\ FormerAuthors(loc[Client].group_id) = {"C"}
    /\ GivenByFormer2(loc[Client].group_id, "B") = 3
    /\ \E i \in 1..Len(loc[Client].leaderboard) :
           /\ loc[Client].leaderboard[i].user_id = "B"
           /\ loc[Client].leaderboard[i].score_x2 = 5
           /\ loc[Client].leaderboard[i].submissions_count = 1

====
